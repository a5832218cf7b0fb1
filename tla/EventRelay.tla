---------------------------- MODULE EventRelay ----------------------------
(***************************************************************************)
(* external::EventRelay (cpp/external/event_relay.hpp): the thread that    *)
(* drains the telemetry ring into a KdbLogger, the calls that start and    *)
(* stop it, and the producer on the other end of the ring.                 *)
(*                                                                         *)
(* The ring is LossyQueue, which SpscRing is proved to implement; it keeps *)
(* the lag with which one thread sees the other's index.  Three threads:   *)
(* the producer (sequence numbers its events and never waits), the caller  *)
(* of Start/Stop/Flush, and one relay thread per Start.  A store reaches   *)
(* the other thread some time later (Propagate), except that whoever reads *)
(* stop_requested_ = true with acquire also sees every push before it.     *)
(***************************************************************************)
EXTENDS Integers, Sequences

CONSTANTS Capacity,    \* of the ring
          Word,        \* values of the 64-bit drop counter
          MaxEvents,   \* bound: events the producer emits in all
          Relays       \* bound: thread ids, one per successful Start

ASSUME RelayAssumption ==
    /\ Capacity \in Nat \ {0}
    /\ MaxEvents \in Nat
    /\ Word \in Nat /\ Word > MaxEvents

VARIABLES queue, credit, avail, dropped, got,       \* the ring
          next_seq, accepted,                       \* producer; its pushes so far
          running, stop_requested, thread,          \* EventRelay members
          ctl, due,                                 \* caller; pushes before its Stop
          pc, got_any,                              \* Run(), per relay thread
          connected, batch, tape,                   \* the logger
          processed                                 \* processed_

ringVars == <<queue, credit, avail, dropped, got>>
prodVars == <<next_seq, accepted>>
ctlVars == <<running, stop_requested, thread, ctl, due>>
runVars == <<pc, got_any>>
logVars == <<connected, batch, tape>>
vars == <<ringVars, prodVars, ctlVars, runVars, logVars, processed>>

NoThread == "none"
Seqs == 0 .. MaxEvents

Ring == INSTANCE LossyQueue WITH Value <- Seqs
Logger == INSTANCE IpcKdbLogger

Init ==
    /\ Ring!InitWith(0)
    /\ next_seq = 0 /\ accepted = <<>>
    /\ running = FALSE /\ stop_requested = FALSE /\ thread = NoThread
    /\ ctl = "idle" /\ due = 0
    /\ pc = [t \in Relays |-> "unborn"]
    /\ got_any = [t \in Relays |-> FALSE]
    /\ Logger!Init
    /\ processed = 0

---------------------------------------------------------------------------
(* Producer: stamps the next sequence number and pushes without waiting.   *)

Push ==
    /\ next_seq < MaxEvents
    /\ Ring!Push(next_seq)
    /\ accepted' = Append(accepted, next_seq)
    /\ next_seq' = next_seq + 1
    /\ UNCHANGED <<ctlVars, runVars, logVars, processed>>

DropUnstamped ==
    /\ next_seq < MaxEvents
    /\ Ring!Drop
    /\ UNCHANGED <<prodVars, ctlVars, runVars, logVars, processed>>
DropSkipsOne ==
    /\ next_seq < MaxEvents
    /\ Ring!Drop
    /\ next_seq' = next_seq + 2
    /\ UNCHANGED <<accepted, ctlVars, runVars, logVars, processed>>
Drop ==
    /\ next_seq < MaxEvents
    /\ Ring!Drop
    /\ next_seq' = next_seq + 1
    /\ UNCHANGED <<accepted, ctlVars, runVars, logVars, processed>>

(* An index store of one side becomes visible to the other. *)
Propagate ==
    /\ Ring!LearnFree \/ Ring!LearnAvail
    /\ UNCHANGED <<prodVars, ctlVars, runVars, logVars, processed>>

---------------------------------------------------------------------------
(* Caller: Start and Stop; the logger's Connect, Disconnect and Flush only *)
(* while no relay runs (sim_runner's order: the client library must be     *)
(* called from one thread).  Its destructor is a Flush and a Disconnect.   *)

StartStaleFlag ==
    /\ ctl = "idle"
    /\ IF running
       THEN UNCHANGED vars
       ELSE \E t \in Relays :
              /\ pc[t] = "unborn"
              /\ running' = TRUE
              /\ thread' = t
              /\ pc' = [pc EXCEPT ![t] = "drain"]
              /\ UNCHANGED <<ringVars, prodVars, stop_requested, ctl, due, got_any,
                             logVars, processed>>
Start ==
    /\ ctl = "idle"
    /\ IF running
       THEN UNCHANGED vars
       ELSE \E t \in Relays :
              /\ pc[t] = "unborn"
              /\ running' = TRUE
              /\ stop_requested' = FALSE
              /\ thread' = t
              /\ pc' = [pc EXCEPT ![t] = "drain"]
              /\ UNCHANGED <<ringVars, prodVars, ctl, due, got_any, logVars, processed>>

StopSignalLost ==
    /\ ctl = "idle"
    /\ running
    /\ due' = Len(accepted)
    /\ ctl' = "joining"
    /\ UNCHANGED <<ringVars, prodVars, running, stop_requested, thread, runVars,
                   logVars, processed>>
StopSignal ==
    /\ ctl = "idle"
    /\ running
    /\ stop_requested' = TRUE
    /\ due' = Len(accepted)
    /\ ctl' = "joining"
    /\ UNCHANGED <<ringVars, prodVars, running, thread, runVars, logVars, processed>>

StopWithoutJoin ==
    /\ ctl = "joining"
    /\ running' = FALSE
    /\ ctl' = "idle"
    /\ thread' = NoThread
    /\ UNCHANGED <<ringVars, prodVars, stop_requested, due, runVars, logVars, processed>>
StopJoin ==
    /\ ctl = "joining"
    /\ pc[thread] = "done"
    /\ running' = FALSE
    /\ ctl' = "idle"
    /\ thread' = NoThread
    /\ UNCHANGED <<ringVars, prodVars, stop_requested, due, runVars, logVars, processed>>

CallerConnect ==
    /\ ctl = "idle"
    /\ ~running
    /\ Logger!Connect
    /\ UNCHANGED <<ringVars, prodVars, ctlVars, runVars, processed>>

CallerDisconnect ==
    /\ ctl = "idle"
    /\ ~running
    /\ Logger!Disconnect
    /\ UNCHANGED <<ringVars, prodVars, ctlVars, runVars, processed>>

CallerFlush ==
    /\ ctl = "idle"
    /\ ~running
    /\ Logger!Flush
    /\ UNCHANGED <<ringVars, prodVars, ctlVars, runVars, processed>>

---------------------------------------------------------------------------
(* Run(): pc "drain" and "final" are the two TryPop loops, "log"/"count"   *)
(* and "flog"/"fcount" their bodies, "check" the stop-flag test after a    *)
(* drain pass, "idle" the sleep.                                           *)

Goto(t, label) == pc' = [pc EXCEPT ![t] = label]

TryPopTrue(t) ==
    /\ pc[t] \in {"drain", "final"}
    /\ Ring!Pop
    /\ Goto(t, IF pc[t] = "drain" THEN "log" ELSE "flog")
    /\ UNCHANGED <<prodVars, ctlVars, got_any, logVars, processed>>

Log(t) ==
    /\ pc[t] \in {"log", "flog"}
    /\ Logger!Log(got)
    /\ Goto(t, IF pc[t] = "log" THEN "count" ELSE "fcount")
    /\ UNCHANGED <<ringVars, prodVars, ctlVars, got_any, processed>>

CountTwice(t) ==
    /\ pc[t] \in {"count", "fcount"}
    /\ processed' = processed + 2
    /\ got_any' = [got_any EXCEPT ![t] = @ \/ pc[t] = "count"]
    /\ Goto(t, IF pc[t] = "count" THEN "drain" ELSE "final")
    /\ UNCHANGED <<ringVars, prodVars, ctlVars, logVars>>
Count(t) ==
    /\ pc[t] \in {"count", "fcount"}
    /\ processed' = processed + 1
    /\ got_any' = [got_any EXCEPT ![t] = @ \/ pc[t] = "count"]
    /\ Goto(t, IF pc[t] = "count" THEN "drain" ELSE "final")
    /\ UNCHANGED <<ringVars, prodVars, ctlVars, logVars>>

DrainEmpty(t) ==
    /\ pc[t] = "drain"
    /\ avail = 0
    /\ Goto(t, "check")
    /\ UNCHANGED <<ringVars, prodVars, ctlVars, got_any, logVars, processed>>

(* Reading the flag as true makes every push before the signal visible.    *)
SyncWithStop ==
    /\ Ring!LearnAvail
    /\ avail' >= Len(queue) - (Len(accepted) - due)

CheckStopSkippingFinalPass(t) ==
    /\ pc[t] = "check"
    /\ stop_requested
    /\ SyncWithStop
    /\ Goto(t, "done")
    /\ UNCHANGED <<prodVars, ctlVars, got_any, logVars, processed>>
CheckStop(t) ==
    /\ pc[t] = "check"
    /\ stop_requested
    /\ SyncWithStop
    /\ Goto(t, "final")
    /\ UNCHANGED <<prodVars, ctlVars, got_any, logVars, processed>>

CheckGoOn(t) ==
    /\ pc[t] = "check"
    /\ ~stop_requested
    /\ Goto(t, IF got_any[t] THEN "drain" ELSE "idle")
    /\ got_any' = [got_any EXCEPT ![t] = FALSE]
    /\ UNCHANGED <<ringVars, prodVars, ctlVars, logVars, processed>>

Wake(t) ==
    /\ pc[t] = "idle"
    /\ Goto(t, "drain")
    /\ UNCHANGED <<ringVars, prodVars, ctlVars, got_any, logVars, processed>>

FinalEmpty(t) ==
    /\ pc[t] = "final"
    /\ avail = 0
    /\ Goto(t, "done")
    /\ UNCHANGED <<ringVars, prodVars, ctlVars, got_any, logVars, processed>>

Run(t) ==
    \/ TryPopTrue(t) \/ Log(t) \/ Count(t) \/ DrainEmpty(t)
    \/ CheckStop(t) \/ CheckGoOn(t) \/ Wake(t) \/ FinalEmpty(t)

---------------------------------------------------------------------------
Next ==
    \/ Push \/ Drop \/ Propagate
    \/ Start \/ StopSignal \/ StopJoin
    \/ CallerConnect \/ CallerDisconnect \/ CallerFlush
    \/ \E t \in Relays : Run(t)

(* The scheduler runs a live relay thread, a Stop that can join joins, and *)
(* a store becomes visible in finite time.                                 *)
Fairness ==
    /\ \A t \in Relays : WF_vars(Run(t))
    /\ WF_vars(StopJoin)
    /\ WF_vars(Propagate)

Spec == Init /\ [][Next]_vars
FairSpec == Spec /\ Fairness

---------------------------------------------------------------------------
Alive(t) == pc[t] \notin {"unborn", "done"}

(* The relay threads are at known places in Run, and sequence numbers and  *)
(* processed_ count no event that was never emitted.                       *)
TypeOK ==
    /\ Ring!TypeOK
    /\ next_seq \in 0 .. MaxEvents
    /\ accepted \in Seq(Seqs)
    /\ running \in BOOLEAN
    /\ stop_requested \in BOOLEAN
    /\ thread \in Relays \cup {NoThread}
    /\ ctl \in {"idle", "joining"}
    /\ due \in 0 .. MaxEvents
    /\ pc \in [Relays -> {"unborn", "drain", "log", "count", "check", "idle",
                          "final", "flog", "fcount", "done"}]
    /\ got_any \in [Relays -> BOOLEAN]
    /\ connected \in BOOLEAN
    /\ batch \in Seq(Seqs)
    /\ tape \in Seq(Seqs)
    /\ processed \in 0 .. MaxEvents

(* The ring has one consumer: over any sequence of Start and Stop no two   *)
(* relay threads are ever alive together.                                  *)
SingleConsumer == \A s, t \in Relays : Alive(s) /\ Alive(t) => s = t

(* Everything handed to the logger, shipped or still batched. *)
rows == tape \o batch

(* The event a relay thread popped and has not logged yet. *)
InHand == IF \E t \in Relays : pc[t] \in {"log", "flog"} THEN <<got>> ELSE <<>>

(* Shipped rows, batched rows, the event in hand and the ring, read in     *)
(* that order, are exactly the accepted pushes: nothing is lost, repeated  *)
(* or reordered between TryPush returning true and a k() that reported no  *)
(* error, with restarts of the relay, reported send failures and           *)
(* reconnects.                                                             *)
TapeIsAccepted == rows \o InHand \o queue = accepted

(* processed() never counts an event that is not on the tape yet, and is   *)
(* exact whenever no relay thread is between Log and the count.            *)
ProcessedIsLogged ==
    /\ processed =< Len(rows)
    /\ (\A t \in Relays : pc[t] \notin {"count", "fcount"}) => processed = Len(rows)

(* When Stop() returns, every push that happened before it was called is   *)
(* on the tape.                                                            *)
StopDrains == [][ StopJoin => Len(rows) >= due ]_vars

(* q/tca_analysis.q counts drops as 1 + last - first - rows:               *)
(* what the tape shows as missing was really dropped, never overcounted.   *)
Missing == IF rows = <<>> THEN 0
           ELSE 1 + rows[Len(rows)] - rows[1] - Len(rows)
GapsAreDrops == Missing =< dropped /\ dropped = next_seq - Len(accepted)

(* What makes the invariants above inductive.  The relay thread alive is   *)
(* the one thread_ holds, and it is past its stop check only when a Stop() *)
(* is waiting for it.                                                      *)
OneThread ==
    /\ \A t \in Relays : Alive(t) => running /\ t = thread
    /\ running => thread \in Relays /\ pc[thread] # "unborn"
    /\ ctl = "joining" => running
    /\ (running /\ ctl = "idle") =>
          ~stop_requested /\ pc[thread] \in {"drain", "log", "count", "check", "idle"}

(* In the final pass the relay knows of every push that Stop() waits for.  *)
FinalPass ==
    ctl = "joining" =>
        /\ due =< Len(accepted)
        /\ pc[thread] \in {"final", "flog", "fcount"} =>
              avail >= Len(queue) - (Len(accepted) - due)
        /\ pc[thread] = "done" => Len(rows) >= due

(* processed_ is one behind the logger between Log and the count.          *)
Counted ==
    Len(rows) = processed + (IF \E t \in Relays : pc[t] \in {"count", "fcount"}
                             THEN 1 ELSE 0)

(* Each accepted event has its sequence number between two bounds a drop   *)
(* can only move apart.                                                    *)
Spaced ==
    \A i \in 1 .. Len(accepted) :
        /\ i - 1 =< accepted[i]
        /\ accepted[i] < next_seq - (Len(accepted) - i)

Inv ==
    /\ TypeOK /\ Ring!BeliefsLag
    /\ OneThread /\ FinalPass /\ Counted /\ Spaced
    /\ TapeIsAccepted
    /\ dropped = next_seq - Len(accepted)

(* Stop() returns: the producer emits finitely many events, so the final   *)
(* drain ends.                                                             *)
StopReturns == (ctl = "joining") ~> (ctl = "idle")

(* Until its caller asks it to stop, every accepted push reaches the tape, *)
(* after a restart too.                                                    *)
EventuallyLogged ==
    \A n \in 1 .. MaxEvents :
        (Len(accepted) >= n /\ running) ~> (Len(rows) >= n \/ ctl = "joining")
===========================================================================
