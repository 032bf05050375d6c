---------------------------- MODULE EventStream -----------------------------
(***************************************************************************)
(* What a reader of an ordered stream of events is promised, twice over in *)
(* this system: by the backend to the client of a subscription             *)
(* (module Subscriptions), and by the connection loop of a browser node to *)
(* the handler behind it (module NodeLink).                                *)
(*                                                                         *)
(* From the moment it is opened a reader gets the events it wants, in the  *)
(* order in which they are published, each once and none left out, until   *)
(* it is closed.  It may be closed at any time, and is never opened again. *)
(***************************************************************************)
EXTENDS Integers, Sequences

CONSTANTS
  Readers,      \* the readers of the stream
  Wanted(_, _)  \* Wanted(r, e): whether reader r is to be given event e

VARIABLES
  published,  \* the events, in order
  reader      \* per reader: its state, how far it is, and what it was given

streamVars == <<published, reader>>

StreamInit ==
  /\ published = <<>>
  /\ reader = [r \in Readers |-> [state |-> "waiting", pos |-> 0, got |-> <<>>]]

\* An event is added; those before it stay.
Publish ==
  /\ Len(published') = Len(published) + 1
  /\ \A i \in DOMAIN published : published'[i] = published[i]
  /\ UNCHANGED reader

\* The reader starts after the last event published.
Open(r) ==
  /\ reader[r].state = "waiting"
  /\ reader' = [reader EXCEPT ![r] = [ state |-> "open", got |-> <<>>,
                                       pos |-> Len(published) ]]
  /\ UNCHANGED published

\* The next event of the reader, if it has one.
NextEvent(r) == published[reader[r].pos + 1]
HasNext(r) == reader[r].state = "open" /\ reader[r].pos < Len(published)

\* It is passed over when it is not for the reader, and given to it otherwise.
Skip(r) ==
  /\ HasNext(r) /\ ~Wanted(r, NextEvent(r))
  /\ reader' = [reader EXCEPT ![r] = [ state |-> "open", got |-> reader[r].got,
                                       pos |-> reader[r].pos + 1 ]]
  /\ UNCHANGED published
Take(r) ==
  /\ HasNext(r) /\ Wanted(r, NextEvent(r))
  /\ reader' = [reader EXCEPT ![r] =
                  [ state |-> "open", pos |-> reader[r].pos + 1,
                    got |-> Append(reader[r].got, NextEvent(r)) ]]
  /\ UNCHANGED published

Close(r) ==
  /\ reader[r].state # "over"
  /\ reader' = [reader EXCEPT ![r] = [ state |-> "over", got |-> reader[r].got,
                                       pos |-> reader[r].pos ]]
  /\ UNCHANGED published

StreamNext ==
  \/ Publish
  \/ \E r \in Readers : Open(r) \/ Skip(r) \/ Take(r) \/ Close(r)

StreamSpec == StreamInit /\ [][StreamNext]_streamVars
=============================================================================
