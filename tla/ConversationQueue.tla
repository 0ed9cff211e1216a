-------------------------- MODULE ConversationQueue --------------------------
(***************************************************************************)
(* What the scheduler promises to the people in a conversation, without    *)
(* turns, drivers, approvals or tables: every queue is served in order,    *)
(* one message at a time, a message joins the one being served only if it  *)
(* comes from the same speaker, a message given back keeps its place at    *)
(* the head, and a message is answered at most once, when it is concluded. *)
(* Module Scheduler is shown to implement this specification.              *)
(***************************************************************************)
EXTENDS Integers, FiniteSets

CONSTANTS
  Task,        \* the messages, numbered in the order of their arrival
  KeyOf,       \* message -> the queue it belongs to
  SpeakerOf,   \* message -> who sent it
  Joinable     \* messages that may join, or be joined by, another one

VARIABLES
  place,       \* where a message is
  answered     \* messages whose final answer has been handed over

qvars == <<place, answered>>

In(p) == {t \in Task : place[t] = p}
SameQueue(t) == {u \in Task : u # t /\ KeyOf[u] = KeyOf[t]}

QInit ==
  /\ place = [t \in Task |-> "absent"]
  /\ answered = {}

Move(S, p) == [t \in Task |-> IF t \in S THEN p ELSE place[t]]

Submit(t) ==
  /\ t \in In("absent") /\ \A u \in In("absent") : t <= u
  /\ place' = Move({t}, "waiting")
  /\ UNCHANGED answered

(* t is at the head of its queue.                                          *)
Head(t) ==
  /\ t \in In("waiting")
  /\ \A u \in SameQueue(t) \cap In("waiting") : t < u

Serve(t) ==
  /\ Head(t)
  /\ SameQueue(t) \cap In("serving") = {}
  /\ place' = Move({t}, "serving")
  /\ UNCHANGED answered

Join(t) ==
  /\ Head(t) /\ t \in Joinable
  /\ \E u \in SameQueue(t) \cap In("serving") \cap Joinable :
       u < t /\ SpeakerOf[u] = SpeakerOf[t]
  /\ place' = Move({t}, "serving")
  /\ UNCHANGED answered

(* Cancelled before they were served, or refused when their turn came.     *)
Withdraw(S) ==
  /\ S # {} /\ S \subseteq In("waiting")
  /\ place' = Move(S, "done")
  /\ UNCHANGED answered

(* Some messages being served are given back, others are concluded.  A     *)
(* message given back has nobody behind it who is being served.            *)
GiveBack(R) ==
  /\ R \subseteq In("serving")
  /\ \A t \in R : \A u \in SameQueue(t) \cap In("serving") : u < t

Release(R, D) ==
  /\ GiveBack(R) /\ D \subseteq In("serving") \ R /\ R \cup D # {}
  /\ place' = [t \in Task |-> IF t \in R THEN "waiting"
                              ELSE IF t \in D THEN "done" ELSE place[t]]
  /\ UNCHANGED answered

(* The served message and those that joined it end with one answer.        *)
Deliver(t, J) ==
  /\ t \in In("serving") /\ J \subseteq SameQueue(t) \cap In("serving")
  /\ place' = Move(J \cup {t}, "done")
  /\ answered' = answered \cup {t}

QNext ==
  \/ \E t \in Task : \/ Submit(t) \/ Serve(t) \/ Join(t)
                     \/ \E J \in SUBSET SameQueue(t) : Deliver(t, J)
  \/ \E S \in SUBSET Task : Withdraw(S)
  \/ \E R, D \in SUBSET Task : Release(R, D)

QSpec == QInit /\ [][QNext]_qvars
=============================================================================
