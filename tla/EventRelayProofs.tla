-------------------------- MODULE EventRelayProofs --------------------------
(***************************************************************************)
(* The relay for every capacity, every number of events and every number   *)
(* of restarts: nothing between TryPush and the tape is lost, repeated or  *)
(* reordered, and Stop() drains.                                           *)
(***************************************************************************)
EXTENDS EventRelay, TLAPS

USE RelayAssumption

---------------------------------------------------------------------------
(* Sequences. *)

LEMMA ConcatAppend ==
    ASSUME NEW S, NEW a \in Seq(S), NEW b \in Seq(S), NEW e \in S
    PROVE  a \o Append(b, e) = Append(a \o b, e)
    OBVIOUS

LEMMA ConcatEmpty ==
    ASSUME NEW S, NEW a \in Seq(S)
    PROVE  a \o <<>> = a /\ <<>> \o a = a
    OBVIOUS

LEMMA ConcatOne ==
    ASSUME NEW S, NEW a \in Seq(S), NEW e \in S
    PROVE  a \o <<e>> = Append(a, e)
    OBVIOUS

LEMMA HeadMoves ==
    ASSUME NEW S, NEW a \in Seq(S), NEW q \in Seq(S), q # <<>>
    PROVE  (a \o <<Head(q)>>) \o Tail(q) = a \o q
    OBVIOUS

LEMMA ConcatIndex ==
    ASSUME NEW S, NEW a \in Seq(S), NEW b \in Seq(S)
    PROVE  /\ a \o b \in Seq(S) /\ Len(a \o b) = Len(a) + Len(b)
           /\ \A i \in 1 .. Len(a) : (a \o b)[i] = a[i]
    OBVIOUS

---------------------------------------------------------------------------
(* What the state says of the relay thread. *)

(* The event in hand and the event being counted are the one thread's.     *)
LEMMA TheThread ==
    ASSUME TypeOK, OneThread, NEW t \in Relays, Alive(t)
    PROVE  /\ running /\ t = thread
           /\ (\E u \in Relays : pc[u] \in {"log", "flog"}) <=> pc[t] \in {"log", "flog"}
           /\ (\E u \in Relays : pc[u] \in {"count", "fcount"})
                 <=> pc[t] \in {"count", "fcount"}
    BY DEF TypeOK, OneThread, Alive

LEMMA ThreadMoves ==
    ASSUME TypeOK, OneThread, NEW t \in Relays, Alive(t), NEW label, Goto(t, label)
    PROVE  /\ pc'[t] = label /\ \A u \in Relays : u # t => pc'[u] = pc[u]
           /\ (\E u \in Relays : pc'[u] \in {"log", "flog"}) <=> label \in {"log", "flog"}
           /\ (\E u \in Relays : pc'[u] \in {"count", "fcount"})
                 <=> label \in {"count", "fcount"}
<1>1. pc'[t] = label /\ \A u \in Relays : u # t => pc'[u] = pc[u]
    BY DEF TypeOK, Goto
<1>2. \A u \in Relays : u # t => ~Alive(u)
    BY DEF OneThread
<1> QED
    BY <1>1, <1>2 DEF Alive

(* With no thread alive nothing is in hand. *)
LEMMA NoThreadAlive ==
    ASSUME OneThread, ~running
    PROVE  \A u \in Relays : ~Alive(u)
    BY DEF OneThread

LEMMA RowsType ==
    ASSUME TypeOK
    PROVE  /\ rows \in Seq(Seqs) /\ InHand \in Seq(Seqs)
           /\ rows \o InHand \in Seq(Seqs)
           /\ Len(rows) = Len(tape) + Len(batch)
           /\ Len(rows) \in Nat /\ Len(InHand) \in Nat /\ Len(queue) \in Nat
           /\ Len(accepted) \in Nat
<1>1. tape \in Seq(Seqs) /\ batch \in Seq(Seqs) /\ got \in Seqs /\ queue \in Seq(Seqs)
      /\ accepted \in Seq(Seqs)
    BY DEF TypeOK, Ring!TypeOK
<1>2. rows \in Seq(Seqs) /\ Len(rows) = Len(tape) + Len(batch)
    BY <1>1, ConcatIndex DEF rows
<1>3. InHand \in Seq(Seqs)
    BY <1>1 DEF InHand
<1> QED
    BY <1>1, <1>2, <1>3

LEMMA TapeLengths ==
    ASSUME TypeOK, TapeIsAccepted
    PROVE  /\ Len(accepted) = Len(rows) + Len(InHand) + Len(queue)
           /\ \A i \in 1 .. Len(rows) : accepted[i] = rows[i]
<1>1. /\ rows \in Seq(Seqs) /\ InHand \in Seq(Seqs) /\ queue \in Seq(Seqs)
      /\ Len(rows) \in Nat /\ Len(InHand) \in Nat /\ Len(queue) \in Nat
    BY RowsType DEF TypeOK, Ring!TypeOK
<1>2. /\ rows \o InHand \in Seq(Seqs) /\ Len(rows \o InHand) = Len(rows) + Len(InHand)
      /\ \A i \in 1 .. Len(rows) : (rows \o InHand)[i] = rows[i]
    BY <1>1, ConcatIndex
<1>3. /\ Len(accepted) = Len(rows \o InHand) + Len(queue)
      /\ \A i \in 1 .. Len(rows \o InHand) : accepted[i] = (rows \o InHand)[i]
    BY <1>1, <1>2, ConcatIndex DEF TapeIsAccepted
<1> QED
    BY <1>1, <1>2, <1>3

(* No more has been processed than was logged, accepted and numbered.      *)
LEMMA Bounds ==
    ASSUME Inv
    PROVE  /\ Len(accepted) \in Nat /\ Len(accepted) =< next_seq /\ next_seq =< MaxEvents
           /\ Len(rows) \in Nat /\ Len(rows) =< Len(accepted)
           /\ next_seq \in Nat
    BY TapeLengths, RowsType DEF Inv, TypeOK, Ring!TypeOK

---------------------------------------------------------------------------
(* The ring. *)

LEMMA RingStep ==
    ASSUME Inv, Next
    PROVE  Ring!TypeOK' /\ Ring!BeliefsLag'
<1>t. /\ queue \in Seq(Seqs) /\ credit \in 0 .. Capacity /\ avail \in 0 .. Capacity
      /\ dropped \in 0 .. Word - 1 /\ got \in Seqs /\ Len(queue) \in Nat
      /\ credit + Len(queue) =< Capacity /\ avail =< Len(queue)
      /\ next_seq \in 0 .. MaxEvents
    BY DEF Inv, TypeOK, Ring!TypeOK, Ring!BeliefsLag
<1>1. CASE Push
    <2>1. next_seq \in Seqs
        BY <1>t DEF Seqs
    <2>2. /\ queue' = Append(queue, next_seq) /\ credit' = credit - 1 /\ credit > 0
          /\ avail' = avail /\ dropped' = dropped /\ got' = got
        BY <1>1 DEF Push, Ring!Push
    <2>3. queue' \in Seq(Seqs) /\ Len(queue') = Len(queue) + 1
        BY <1>t, <2>1, <2>2
    <2> QED
        BY <1>t, <2>2, <2>3 DEF Ring!TypeOK, Ring!BeliefsLag
<1>2. CASE Drop
    <2>1. dropped' \in 0 .. Word - 1
        BY <1>2, <1>t DEF Drop, Ring!Drop, Ring!CountUp
    <2> QED
        BY <1>2, <1>t, <2>1 DEF Drop, Ring!Drop, Ring!TypeOK, Ring!BeliefsLag
<1>3. CASE Ring!LearnFree
    BY <1>3, <1>t DEF Ring!LearnFree, Ring!TypeOK, Ring!BeliefsLag
<1>4. CASE Ring!LearnAvail
    BY <1>4, <1>t DEF Ring!LearnAvail, Ring!TypeOK, Ring!BeliefsLag
<1>5. CASE Ring!Pop
    <2>1. /\ got' = Head(queue) /\ queue' = Tail(queue) /\ avail' = avail - 1 /\ avail > 0
          /\ queue # <<>> /\ credit' = credit /\ dropped' = dropped
        BY <1>5 DEF Ring!Pop
    <2>2. got' \in Seqs /\ queue' \in Seq(Seqs) /\ Len(queue') = Len(queue) - 1
        BY <1>t, <2>1
    <2> QED
        BY <1>t, <2>1, <2>2 DEF Ring!TypeOK, Ring!BeliefsLag
<1>6. CASE UNCHANGED ringVars
    BY <1>6, <1>t DEF ringVars, Ring!TypeOK, Ring!BeliefsLag
<1>7. CASE Propagate
    BY <1>3, <1>4, <1>7 DEF Propagate
<1>8. CASE Start \/ StopSignal \/ StopJoin
    BY <1>6, <1>8 DEF Start, StopSignal, StopJoin, vars
<1>9. CASE CallerConnect \/ CallerDisconnect \/ CallerFlush
    BY <1>6, <1>9 DEF CallerConnect, CallerDisconnect, CallerFlush
<1>10. ASSUME NEW t \in Relays, Run(t) PROVE Ring!TypeOK' /\ Ring!BeliefsLag'
    BY <1>4, <1>5, <1>6, <1>10
    DEF Run, TryPopTrue, Log, Count, DrainEmpty, CheckStop, SyncWithStop, CheckGoOn,
        Wake, FinalEmpty
<1> QED
    BY <1>1, <1>2, <1>7, <1>8, <1>9, <1>10 DEF Next

---------------------------------------------------------------------------
(* Types. *)

LEMMA LoggerType ==
    ASSUME TypeOK, Logger!Connect \/ Logger!Disconnect \/ Logger!Flush
    PROVE  connected' \in BOOLEAN /\ batch' \in Seq(Seqs) /\ tape' \in Seq(Seqs)
<1>1. CASE Logger!Connect
    BY <1>1 DEF TypeOK, Logger!Connect, Logger!khpu
<1>2. CASE Logger!Disconnect
    BY <1>2 DEF TypeOK, Logger!Disconnect
<1>3. CASE Logger!FlushSends
    BY <1>3 DEF TypeOK, Logger!FlushSends
<1>4. CASE Logger!FlushFails
    BY <1>4 DEF TypeOK, Logger!FlushFails
<1>5. CASE Logger!FlushSkips
    BY <1>5 DEF TypeOK, Logger!FlushSkips, Logger!vars
<1> QED
    BY <1>1, <1>2, <1>3, <1>4, <1>5 DEF Logger!Flush

LEMMA TypeStep ==
    ASSUME Inv, Next
    PROVE  TypeOK'
<1>t. TypeOK /\ OneThread /\ Counted
    BY DEF Inv
<1>r. Ring!TypeOK'
    BY RingStep
<1> DEFINE Labels == {"unborn", "drain", "log", "count", "check", "idle",
                      "final", "flog", "fcount", "done"}
<1>p. ASSUME UNCHANGED prodVars PROVE next_seq' \in 0 .. MaxEvents /\ accepted' \in Seq(Seqs)
    BY <1>p, <1>t DEF TypeOK, prodVars
<1>c. ASSUME UNCHANGED ctlVars
      PROVE  /\ running' \in BOOLEAN /\ stop_requested' \in BOOLEAN
             /\ thread' \in Relays \cup {NoThread} /\ ctl' \in {"idle", "joining"}
             /\ due' \in 0 .. MaxEvents
    BY <1>c, <1>t DEF TypeOK, ctlVars
<1>n. ASSUME UNCHANGED runVars
      PROVE  pc' \in [Relays -> Labels] /\ got_any' \in [Relays -> BOOLEAN]
    BY <1>n, <1>t DEF TypeOK, runVars
<1>l. ASSUME UNCHANGED logVars
      PROVE  connected' \in BOOLEAN /\ batch' \in Seq(Seqs) /\ tape' \in Seq(Seqs)
    BY <1>l, <1>t DEF TypeOK, logVars
<1>b. Len(accepted) \in 0 .. MaxEvents
    BY Bounds
<1>g. ASSUME NEW t \in Relays, NEW label \in Labels, Goto(t, label)
      PROVE  pc' \in [Relays -> Labels]
    BY <1>g, <1>t DEF TypeOK, Goto
<1>1. CASE Push
    <2>1. next_seq' \in 0 .. MaxEvents /\ accepted' \in Seq(Seqs)
        BY <1>1, <1>t DEF Push, TypeOK, Seqs
    <2> QED
        BY <1>1, <1>t, <1>r, <1>c, <1>n, <1>l, <2>1 DEF Push, TypeOK
<1>2. CASE Drop
    <2>1. next_seq' \in 0 .. MaxEvents /\ accepted' \in Seq(Seqs)
        BY <1>2, <1>t DEF Drop, TypeOK
    <2> QED
        BY <1>2, <1>t, <1>r, <1>c, <1>n, <1>l, <2>1 DEF Drop, TypeOK
<1>3. CASE Propagate
    BY <1>3, <1>t, <1>r, <1>p, <1>c, <1>n, <1>l DEF Propagate, TypeOK
<1>4. CASE Start
    <2>1. CASE running
        BY <1>4, <1>t, <2>1
        DEF Start, TypeOK, Ring!TypeOK, vars, ringVars, prodVars, ctlVars, runVars, logVars
    <2>2. CASE ~running
        <3>1. PICK t \in Relays :
                  /\ running' = TRUE /\ stop_requested' = FALSE /\ thread' = t
                  /\ pc' = [pc EXCEPT ![t] = "drain"]
                  /\ UNCHANGED <<ringVars, prodVars, ctl, due, got_any, logVars, processed>>
            BY <1>4, <2>2 DEF Start
        <3>2. pc' \in [Relays -> Labels]
            BY <1>g, <3>1 DEF Goto
        <3> QED
            BY <1>t, <1>r, <1>p, <1>l, <3>1, <3>2 DEF TypeOK
    <2> QED
        BY <2>1, <2>2
<1>5. CASE StopSignal
    BY <1>5, <1>t, <1>r, <1>p, <1>n, <1>l, <1>b DEF StopSignal, TypeOK
<1>6. CASE StopJoin
    BY <1>6, <1>t, <1>r, <1>p, <1>n, <1>l DEF StopJoin, TypeOK
<1>7. CASE CallerConnect \/ CallerDisconnect \/ CallerFlush
    BY <1>7, <1>t, <1>r, <1>p, <1>c, <1>n, LoggerType
    DEF CallerConnect, CallerDisconnect, CallerFlush, TypeOK
<1>8. ASSUME NEW t \in Relays, Run(t) PROVE TypeOK'
    <2>1. CASE TryPopTrue(t)
        BY <2>1, <1>t, <1>r, <1>p, <1>c, <1>l, <1>g DEF TryPopTrue, TypeOK
    <2>2. CASE Log(t)
        <3>1. connected' \in BOOLEAN /\ batch' \in Seq(Seqs) /\ tape' \in Seq(Seqs)
            BY <2>2, <1>t DEF Log, Logger!Log, TypeOK, Ring!TypeOK
        <3> QED
            BY <2>2, <1>t, <1>r, <1>p, <1>c, <1>g, <3>1 DEF Log, TypeOK
    <2>3. CASE Count(t)
        <3>1. \E u \in Relays : pc[u] \in {"count", "fcount"}
            BY <2>3 DEF Count
        <3>2. processed' \in 0 .. MaxEvents
            BY <2>3, <1>t, <3>1, Bounds DEF Count, Counted, TypeOK
        <3>3. got_any' \in [Relays -> BOOLEAN]
            BY <2>3, <1>t DEF Count, TypeOK
        <3> QED
            BY <2>3, <1>t, <1>r, <1>p, <1>c, <1>l, <1>g, <3>2, <3>3 DEF Count, TypeOK
    <2>4. CASE DrainEmpty(t) \/ Wake(t) \/ FinalEmpty(t)
        BY <2>4, <1>t, <1>r, <1>p, <1>c, <1>l, <1>g DEF DrainEmpty, Wake, FinalEmpty, TypeOK
    <2>5. CASE CheckStop(t)
        BY <2>5, <1>t, <1>r, <1>p, <1>c, <1>l, <1>g DEF CheckStop, TypeOK
    <2>6. CASE CheckGoOn(t)
        <3>1. got_any' \in [Relays -> BOOLEAN]
            BY <2>6, <1>t DEF CheckGoOn, TypeOK
        <3> QED
            BY <2>6, <1>t, <1>r, <1>p, <1>c, <1>l, <1>g, <3>1 DEF CheckGoOn, TypeOK
    <2> QED
        BY <1>8, <2>1, <2>2, <2>3, <2>4, <2>5, <2>6 DEF Run
<1> QED
    BY <1>1, <1>2, <1>3, <1>4, <1>5, <1>6, <1>7, <1>8 DEF Next

---------------------------------------------------------------------------
(* Threads. *)

(* A step of Run moves a live thread; it gets past its stop check only     *)
(* when stop_requested_ is set.                                            *)
LEMMA RunMoves ==
    ASSUME TypeOK, NEW t \in Relays, Run(t)
    PROVE  /\ Alive(t) /\ UNCHANGED ctlVars /\ UNCHANGED prodVars
           /\ \E label : /\ Goto(t, label)
                         /\ label # "unborn"
                         /\ label = "done" => pc[t] = "final"
                         /\ \/ label \in {"drain", "log", "count", "check", "idle"}
                            \/ pc[t] \in {"final", "flog", "fcount"}
                            \/ stop_requested
    BY DEF Run, TryPopTrue, Log, Count, DrainEmpty, CheckStop, CheckGoOn, Wake, FinalEmpty,
           Alive

LEMMA OneThreadStep ==
    ASSUME Inv, Next
    PROVE  OneThread'
<1>t. TypeOK /\ OneThread
    BY DEF Inv
<1>1. CASE UNCHANGED <<ctlVars, pc>>
    BY <1>1, <1>t DEF OneThread, Alive, ctlVars
<1>2. CASE Push \/ Drop \/ Propagate \/ CallerConnect \/ CallerDisconnect \/ CallerFlush
    BY <1>1, <1>2
    DEF Push, Drop, Propagate, CallerConnect, CallerDisconnect, CallerFlush, runVars
<1>3. CASE Start
    <2>1. CASE running
        BY <1>1, <1>3, <2>1 DEF Start, vars, runVars
    <2>2. CASE ~running
        <3>1. PICK t \in Relays :
                  /\ running' = TRUE /\ stop_requested' = FALSE /\ thread' = t
                  /\ pc' = [pc EXCEPT ![t] = "drain"]
                  /\ UNCHANGED ctl
            BY <1>3, <2>2 DEF Start
        <3>2. pc'[t] = "drain" /\ \A u \in Relays : u # t => pc'[u] = pc[u]
            BY <1>t, <3>1 DEF TypeOK
        <3> QED
            BY <1>t, <2>2, <3>1, <3>2, NoThreadAlive DEF OneThread, Alive
    <2> QED
        BY <2>1, <2>2
<1>4. CASE StopSignal
    BY <1>4, <1>t DEF StopSignal, OneThread, Alive, runVars
<1>5. CASE StopJoin
    <2>1. \A u \in Relays : ~Alive(u)
        BY <1>5, <1>t DEF StopJoin, OneThread, Alive
    <2> QED
        BY <1>5, <2>1 DEF StopJoin, OneThread, Alive, runVars
<1>6. ASSUME NEW t \in Relays, Run(t) PROVE OneThread'
    <2>1. Alive(t) /\ UNCHANGED ctlVars
        BY <1>6, <1>t, RunMoves
    <2>2. running /\ t = thread
        BY <2>1, <1>t, TheThread
    <2>3. PICK label : /\ Goto(t, label)
                       /\ label # "unborn"
                       /\ \/ label \in {"drain", "log", "count", "check", "idle"}
                          \/ pc[t] \in {"final", "flog", "fcount"}
                          \/ stop_requested
        BY <1>6, <1>t, RunMoves
    <2>4. pc'[t] = label /\ \A u \in Relays : u # t => pc'[u] = pc[u]
        BY <1>t, <2>3 DEF TypeOK, Goto
    <2>5. ctl = "idle" => label \in {"drain", "log", "count", "check", "idle"}
        BY <1>t, <2>2, <2>3 DEF OneThread
    <2> QED
        BY <1>t, <2>1, <2>2, <2>3, <2>4, <2>5 DEF OneThread, Alive, ctlVars
<1> QED
    BY <1>2, <1>3, <1>4, <1>5, <1>6 DEF Next

---------------------------------------------------------------------------
(* The tape. *)

(* A caller's Connect, Disconnect or Flush, with a send that fails or not, *)
(* changes no row.                                                         *)
LEMMA LoggerKeepsRows ==
    ASSUME TypeOK, Logger!Connect \/ Logger!Disconnect \/ Logger!Flush
    PROVE  rows' = rows
<1>1. tape \in Seq(Seqs) /\ batch \in Seq(Seqs)
    BY DEF TypeOK
<1>2. CASE Logger!Connect \/ Logger!Disconnect
    BY <1>2 DEF Logger!Connect, Logger!Disconnect, rows
<1>3. CASE Logger!FlushSends
    <2>1. tape' = rows /\ batch' = <<>>
        BY <1>3 DEF Logger!FlushSends, rows
    <2>2. rows' = rows \o <<>>
        BY <2>1 DEF rows
    <2> QED
        BY <2>2, RowsType, ConcatEmpty
<1>4. CASE Logger!FlushFails \/ Logger!FlushSkips
    BY <1>4 DEF Logger!FlushFails, Logger!FlushSkips, Logger!vars, rows
<1> QED
    BY <1>2, <1>3, <1>4 DEF Logger!Flush

(* Nothing is in hand when a thread is born. *)
LEMMA StartKeepsHand ==
    ASSUME Inv, Start
    PROVE  /\ UNCHANGED <<ringVars, prodVars, logVars, processed, ctl, due>>
           /\ InHand' = InHand
           /\ (\E u \in Relays : pc'[u] \in {"count", "fcount"})
                 <=> (\E u \in Relays : pc[u] \in {"count", "fcount"})
<1>1. CASE running
    BY <1>1 DEF Start, vars, ringVars, prodVars, logVars, ctlVars, runVars, InHand
<1>2. CASE ~running
    <2>1. PICK t \in Relays :
              /\ pc' = [pc EXCEPT ![t] = "drain"]
              /\ UNCHANGED <<ringVars, prodVars, ctl, due, got_any, logVars, processed>>
        BY <1>2 DEF Start
    <2>2. \A u \in Relays : pc[u] \in {"unborn", "done"}
        BY <1>2, NoThreadAlive DEF Inv, Alive
    <2>3. \A u \in Relays : pc'[u] \in {"unborn", "done", "drain"}
        BY <2>1, <2>2 DEF Inv, TypeOK
    <2> QED
        BY <2>1, <2>2, <2>3 DEF InHand
<1> QED
    BY <1>1, <1>2

(* What Log does to the rows. *)
LEMMA LogAppends ==
    ASSUME TypeOK, NEW t \in Relays, Log(t)
    PROVE  rows' = Append(rows, got) /\ Len(rows') = Len(rows) + 1
<1>1. tape \in Seq(Seqs) /\ batch \in Seq(Seqs) /\ got \in Seqs
    BY DEF TypeOK, Ring!TypeOK
<1>2. rows' = tape \o Append(batch, got)
    BY DEF Log, Logger!Log, rows
<1>3. rows' = Append(rows, got)
    BY <1>1, <1>2, ConcatAppend DEF rows
<1> QED
    BY <1>1, <1>3, RowsType

LEMMA TapeStep ==
    ASSUME Inv, Next
    PROVE  TapeIsAccepted'
<1>t. TypeOK /\ OneThread /\ TapeIsAccepted
    BY DEF Inv
<1>s. /\ rows \in Seq(Seqs) /\ InHand \in Seq(Seqs) /\ rows \o InHand \in Seq(Seqs)
      /\ queue \in Seq(Seqs) /\ got \in Seqs /\ next_seq \in Seqs
    BY <1>t, RowsType DEF TypeOK, Ring!TypeOK, Seqs
<1>1. ASSUME rows' = rows, InHand' = InHand, queue' = queue, accepted' = accepted
      PROVE  TapeIsAccepted'
    BY <1>1, <1>t DEF TapeIsAccepted
<1>2. CASE Push
    <2>1. queue' = Append(queue, next_seq) /\ accepted' = Append(accepted, next_seq)
        BY <1>2 DEF Push, Ring!Push
    <2>2. rows' = rows /\ InHand' = InHand
        BY <1>2 DEF Push, Ring!Push, rows, InHand, logVars, runVars
    <2>3. (rows \o InHand) \o Append(queue, next_seq)
              = Append((rows \o InHand) \o queue, next_seq)
        BY <1>s, ConcatAppend
    <2> QED
        BY <1>t, <2>1, <2>2, <2>3 DEF TapeIsAccepted
<1>3. CASE Drop \/ Propagate
    BY <1>1, <1>3 DEF Drop, Ring!Drop, Propagate, Ring!LearnFree, Ring!LearnAvail, rows,
                      InHand, logVars, runVars, prodVars
<1>4. CASE Start
    BY <1>1, <1>4, StartKeepsHand DEF ringVars, prodVars, logVars, rows
<1>5. CASE StopSignal \/ StopJoin
    BY <1>1, <1>5 DEF StopSignal, StopJoin, ringVars, prodVars, logVars, runVars, rows, InHand
<1>6. CASE CallerConnect \/ CallerDisconnect \/ CallerFlush
    <2>1. rows' = rows
        BY <1>6, <1>t, LoggerKeepsRows DEF CallerConnect, CallerDisconnect, CallerFlush
    <2> QED
        BY <1>1, <1>6, <2>1
        DEF CallerConnect, CallerDisconnect, CallerFlush, ringVars, prodVars, runVars, InHand
<1>7. ASSUME NEW t \in Relays, Run(t) PROVE TapeIsAccepted'
    <2>a. Alive(t)
        BY <1>7, <1>t, RunMoves
    <2>1. CASE TryPopTrue(t)
        <3>1. PICK label : Goto(t, label) /\ label \in {"log", "flog"}
            BY <2>1 DEF TryPopTrue
        <3>2. InHand = <<>>
            BY <1>t, <2>a, <2>1, TheThread DEF InHand, TryPopTrue
        <3>3. /\ got' = Head(queue) /\ queue' = Tail(queue) /\ queue # <<>>
              /\ rows' = rows /\ accepted' = accepted
            BY <2>1 DEF TryPopTrue, Ring!Pop, rows, logVars, prodVars
        <3>4. \E u \in Relays : pc'[u] \in {"log", "flog"}
            BY <1>t, <2>a, <3>1, ThreadMoves
        <3>5. InHand' = <<Head(queue)>>
            BY <3>3, <3>4 DEF InHand
        <3>6. (rows \o <<Head(queue)>>) \o Tail(queue) = rows \o queue
            BY <1>s, <3>3, HeadMoves
        <3>7. rows \o InHand = rows
            BY <1>s, <3>2, ConcatEmpty
        <3> QED
            BY <1>t, <3>3, <3>5, <3>6, <3>7 DEF TapeIsAccepted
    <2>2. CASE Log(t)
        <3>1. PICK label : Goto(t, label) /\ label \in {"count", "fcount"}
            BY <2>2 DEF Log
        <3>2. InHand = <<got>>
            BY <1>t, <2>a, <2>2, TheThread DEF InHand, Log
        <3>3. ~ \E u \in Relays : pc'[u] \in {"log", "flog"}
            BY <1>t, <2>a, <3>1, ThreadMoves
        <3>4. InHand' = <<>>
            BY <3>3 DEF InHand
        <3>5. queue' = queue /\ accepted' = accepted
            BY <2>2 DEF Log, ringVars, prodVars
        <3>6. rows' = Append(rows, got)
            BY <1>t, <2>2, LogAppends
        <3>7. rows \o InHand = rows'
            BY <1>s, <3>2, <3>6, ConcatOne
        <3>8. rows' \o <<>> = rows'
            BY <1>s, <3>6, ConcatEmpty
        <3> QED
            BY <1>t, <3>4, <3>5, <3>7, <3>8 DEF TapeIsAccepted
    <2>3. CASE Count(t) \/ DrainEmpty(t) \/ CheckStop(t) \/ CheckGoOn(t) \/ Wake(t)
               \/ FinalEmpty(t)
        <3>1. PICK label : Goto(t, label) /\ label \notin {"log", "flog"}
            BY <2>3 DEF Count, DrainEmpty, CheckStop, CheckGoOn, Wake, FinalEmpty
        <3>2. pc[t] \notin {"log", "flog"}
            BY <2>3 DEF Count, DrainEmpty, CheckStop, CheckGoOn, Wake, FinalEmpty
        <3>3. InHand = <<>>
            BY <1>t, <2>a, <3>2, TheThread DEF InHand
        <3>4. ~ \E u \in Relays : pc'[u] \in {"log", "flog"}
            BY <1>t, <2>a, <3>1, ThreadMoves
        <3>5. InHand' = <<>>
            BY <3>4 DEF InHand
        <3>6. rows' = rows /\ queue' = queue /\ accepted' = accepted
            BY <2>3 DEF Count, DrainEmpty, CheckStop, SyncWithStop, Ring!LearnAvail,
                        CheckGoOn, Wake, FinalEmpty, ringVars, logVars, prodVars, rows
        <3> QED
            BY <1>1, <3>3, <3>5, <3>6
    <2> QED
        BY <1>7, <2>1, <2>2, <2>3 DEF Run
<1> QED
    BY <1>2, <1>3, <1>4, <1>5, <1>6, <1>7 DEF Next

---------------------------------------------------------------------------
(* The counts. *)

LEMMA CountedStep ==
    ASSUME Inv, Next
    PROVE  Counted'
<1>t. TypeOK /\ OneThread /\ Counted
    BY DEF Inv
<1>1. ASSUME rows' = rows, processed' = processed,
             (\E u \in Relays : pc'[u] \in {"count", "fcount"})
                <=> (\E u \in Relays : pc[u] \in {"count", "fcount"})
      PROVE  Counted'
    BY <1>1, <1>t DEF Counted
<1>2. CASE Push \/ Drop \/ Propagate \/ StopSignal \/ StopJoin
    BY <1>1, <1>2 DEF Push, Drop, Propagate, StopSignal, StopJoin, runVars, logVars, rows
<1>3. CASE Start
    BY <1>1, <1>3, StartKeepsHand DEF logVars, rows
<1>4. CASE CallerConnect \/ CallerDisconnect \/ CallerFlush
    BY <1>1, <1>4, <1>t, LoggerKeepsRows
    DEF CallerConnect, CallerDisconnect, CallerFlush, runVars
<1>5. ASSUME NEW t \in Relays, Run(t) PROVE Counted'
    <2>a. Alive(t)
        BY <1>5, <1>t, RunMoves
    <2>n. processed \in Nat /\ Len(rows) \in Nat
        BY <1>t, RowsType DEF TypeOK
    <2>1. CASE Log(t)
        <3>1. PICK label : Goto(t, label) /\ label \in {"count", "fcount"}
            BY <2>1 DEF Log
        <3>2. ~ \E u \in Relays : pc[u] \in {"count", "fcount"}
            BY <1>t, <2>a, <2>1, TheThread DEF Log
        <3>3. \E u \in Relays : pc'[u] \in {"count", "fcount"}
            BY <1>t, <2>a, <3>1, ThreadMoves
        <3>4. Len(rows') = Len(rows) + 1 /\ processed' = processed
            BY <1>t, <2>1, LogAppends DEF Log
        <3> QED
            BY <1>t, <2>n, <3>2, <3>3, <3>4 DEF Counted
    <2>2. CASE Count(t)
        <3>1. PICK label : Goto(t, label) /\ label \notin {"count", "fcount"}
            BY <2>2 DEF Count
        <3>2. \E u \in Relays : pc[u] \in {"count", "fcount"}
            BY <2>2 DEF Count
        <3>3. ~ \E u \in Relays : pc'[u] \in {"count", "fcount"}
            BY <1>t, <2>a, <3>1, ThreadMoves
        <3>4. rows' = rows /\ processed' = processed + 1
            BY <2>2 DEF Count, logVars, rows
        <3> QED
            BY <1>t, <2>n, <3>2, <3>3, <3>4 DEF Counted
    <2>3. CASE TryPopTrue(t) \/ DrainEmpty(t) \/ CheckStop(t) \/ CheckGoOn(t) \/ Wake(t)
               \/ FinalEmpty(t)
        <3>1. PICK label : Goto(t, label) /\ label \notin {"count", "fcount"}
            BY <2>3 DEF TryPopTrue, DrainEmpty, CheckStop, CheckGoOn, Wake, FinalEmpty
        <3>2. pc[t] \notin {"count", "fcount"}
            BY <2>3 DEF TryPopTrue, DrainEmpty, CheckStop, CheckGoOn, Wake, FinalEmpty
        <3>3. ~ \E u \in Relays : pc[u] \in {"count", "fcount"}
            BY <1>t, <2>a, <3>2, TheThread
        <3>4. ~ \E u \in Relays : pc'[u] \in {"count", "fcount"}
            BY <1>t, <2>a, <3>1, ThreadMoves
        <3>5. rows' = rows /\ processed' = processed
            BY <2>3 DEF TryPopTrue, DrainEmpty, CheckStop, CheckGoOn, Wake, FinalEmpty,
                        logVars, rows
        <3> QED
            BY <1>1, <3>3, <3>4, <3>5
    <2> QED
        BY <1>5, <2>1, <2>2, <2>3 DEF Run
<1> QED
    BY <1>2, <1>3, <1>4, <1>5 DEF Next

(* Only the producer stamps numbers, pushes and drops; the drop counter    *)
(* does not wrap before the events run out.                                *)
LEMMA ProducerStep ==
    ASSUME Inv, Next
    PROVE  Spaced' /\ dropped' = next_seq' - Len(accepted')
<1>t. TypeOK /\ Spaced /\ dropped = next_seq - Len(accepted)
    BY DEF Inv
<1>s. /\ accepted \in Seq(Seqs) /\ Len(accepted) \in Nat /\ next_seq \in 0 .. MaxEvents
      /\ Len(accepted) =< next_seq /\ dropped \in 0 .. Word - 1
      /\ \A i \in 1 .. Len(accepted) : accepted[i] \in Nat
    BY <1>t, Bounds DEF TypeOK, Ring!TypeOK, Seqs
<1>1. CASE UNCHANGED <<prodVars, dropped>>
    BY <1>1, <1>t DEF prodVars, Spaced
<1>2. CASE Push
    <2>1. accepted' = Append(accepted, next_seq) /\ next_seq' = next_seq + 1
          /\ dropped' = dropped /\ next_seq \in Seqs
        BY <1>2, <1>s DEF Push, Ring!Push, Seqs
    <2>2. /\ Len(accepted') = Len(accepted) + 1
          /\ accepted'[Len(accepted) + 1] = next_seq
          /\ \A i \in 1 .. Len(accepted) : accepted'[i] = accepted[i]
        BY <1>s, <2>1
    <2>3. ASSUME NEW i \in 1 .. Len(accepted) + 1
          PROVE  i - 1 =< accepted'[i] /\ accepted'[i] < next_seq' - (Len(accepted') - i)
        <3>1. CASE i = Len(accepted) + 1
            BY <1>s, <2>1, <2>2, <3>1
        <3>2. CASE i \in 1 .. Len(accepted)
            <4>1. /\ i - 1 =< accepted[i] /\ accepted[i] < next_seq - (Len(accepted) - i)
                  /\ accepted[i] \in Nat
                BY <1>s, <1>t, <3>2 DEF Spaced
            <4> QED
                BY <1>s, <2>1, <2>2, <3>2, <4>1
        <3> QED
            BY <1>s, <3>1, <3>2
    <2> QED
        BY <1>t, <1>s, <2>1, <2>2, <2>3 DEF Spaced
<1>3. CASE Drop
    <2>1. accepted' = accepted /\ next_seq' = next_seq + 1 /\ next_seq < MaxEvents
        BY <1>3 DEF Drop
    <2>2. dropped' = dropped + 1
        BY <1>3, <1>t, <1>s, <2>1 DEF Drop, Ring!Drop, Ring!CountUp
    <2>3. ASSUME NEW i \in 1 .. Len(accepted)
          PROVE  i - 1 =< accepted[i] /\ accepted[i] < next_seq + 1 - (Len(accepted) - i)
        BY <1>t, <1>s DEF Spaced
    <2> QED
        BY <1>t, <1>s, <2>1, <2>2, <2>3 DEF Spaced
<1>4. CASE Propagate
    BY <1>1, <1>4 DEF Propagate, Ring!LearnFree, Ring!LearnAvail
<1>5. CASE Start
    BY <1>1, <1>5, StartKeepsHand DEF ringVars
<1>6. CASE StopSignal \/ StopJoin \/ CallerConnect \/ CallerDisconnect \/ CallerFlush
    BY <1>1, <1>6
    DEF StopSignal, StopJoin, CallerConnect, CallerDisconnect, CallerFlush, ringVars
<1>7. ASSUME NEW t \in Relays, Run(t) PROVE UNCHANGED <<prodVars, dropped>>
    BY <1>7 DEF Run, TryPopTrue, Ring!Pop, Log, Count, DrainEmpty, CheckStop, SyncWithStop,
                Ring!LearnAvail, CheckGoOn, Wake, FinalEmpty, ringVars
<1> QED
    BY <1>1, <1>2, <1>3, <1>4, <1>5, <1>6, <1>7 DEF Next

---------------------------------------------------------------------------
(* Stop. *)

LEMMA FinalPassStep ==
    ASSUME Inv, Next
    PROVE  FinalPass'
<1>t. TypeOK /\ OneThread /\ FinalPass /\ TapeIsAccepted
    BY DEF Inv
<1>s. /\ Len(accepted) \in Nat /\ Len(queue) \in Nat /\ Len(rows) \in Nat
      /\ due \in Nat /\ avail \in Nat
    BY <1>t, RowsType DEF TypeOK, Ring!TypeOK
<1>1. CASE Push
    <2>1. /\ accepted' = Append(accepted, next_seq) /\ queue' = Append(queue, next_seq)
          /\ accepted \in Seq(Seqs) /\ queue \in Seq(Seqs) /\ next_seq \in Seqs
        BY <1>1, <1>t DEF Push, Ring!Push, TypeOK, Ring!TypeOK, Seqs
    <2>2. Len(accepted') = Len(accepted) + 1 /\ Len(queue') = Len(queue) + 1
        BY <2>1
    <2>3. /\ UNCHANGED <<ctl, due, thread, pc, avail>> /\ rows' = rows
        BY <1>1 DEF Push, Ring!Push, ctlVars, runVars, logVars, rows
    <2> QED
        BY <1>t, <1>s, <2>2, <2>3 DEF FinalPass
<1>2. CASE Drop \/ Propagate
    <2>1. UNCHANGED <<ctl, due, thread, pc, queue, accepted>> /\ rows' = rows
        BY <1>2 DEF Drop, Ring!Drop, Propagate, Ring!LearnFree, Ring!LearnAvail, ctlVars,
                    runVars, logVars, prodVars, rows
    <2>2. avail' \in Nat /\ avail' >= avail
        BY <1>2, <1>s DEF Drop, Ring!Drop, Propagate, Ring!LearnFree, Ring!LearnAvail
    <2> QED
        BY <1>t, <1>s, <2>1, <2>2 DEF FinalPass
<1>3. CASE Start
    BY <1>3, StartKeepsHand DEF Start, FinalPass
<1>4. CASE StopSignal
    <2>1. /\ due' = Len(accepted) /\ accepted' = accepted /\ thread' = thread /\ pc' = pc
          /\ running /\ ctl = "idle"
        BY <1>4 DEF StopSignal, prodVars, runVars
    <2>2. pc[thread] \in {"drain", "log", "count", "check", "idle"}
        BY <1>t, <2>1 DEF OneThread
    <2> QED
        BY <1>s, <2>1, <2>2 DEF FinalPass
<1>5. CASE StopJoin \/ CallerConnect \/ CallerDisconnect \/ CallerFlush
    BY <1>5 DEF StopJoin, CallerConnect, CallerDisconnect, CallerFlush, ctlVars, FinalPass
<1>6. ASSUME NEW t \in Relays, Run(t) PROVE FinalPass'
    <2>a. Alive(t) /\ UNCHANGED <<ctl, due, thread, accepted>>
        BY <1>6, <1>t, RunMoves DEF ctlVars, prodVars
    <2>b. t = thread
        BY <1>t, <2>a, TheThread
    <2> SUFFICES ASSUME ctl = "joining" PROVE FinalPass'
        BY <2>a DEF FinalPass
    <2>c. due =< Len(accepted)
        BY <1>t DEF FinalPass
    <2>d. pc[t] \in {"final", "flog", "fcount"} =>
              avail >= Len(queue) - (Len(accepted) - due)
        BY <1>t, <2>b DEF FinalPass
    <2>e. ASSUME NEW label, Goto(t, label), label \notin {"final", "flog", "fcount", "done"}
          PROVE  FinalPass'
        <3>1. pc'[thread'] = label
            BY <1>t, <2>a, <2>b, <2>e, ThreadMoves
        <3> QED
            BY <2>a, <2>c, <2>e, <3>1 DEF FinalPass
    <2>f. ASSUME NEW label, Goto(t, label), label \in {"final", "flog", "fcount"},
                 avail' >= Len(queue') - (Len(accepted) - due)
          PROVE  FinalPass'
        <3>1. pc'[thread'] = label
            BY <1>t, <2>a, <2>b, <2>f, ThreadMoves
        <3> QED
            BY <2>a, <2>c, <2>f, <3>1 DEF FinalPass
    <2>1. CASE TryPopTrue(t)
        <3>1. /\ avail' = avail - 1 /\ queue' = Tail(queue) /\ queue # <<>>
              /\ queue \in Seq(Seqs)
            BY <2>1, <1>t DEF TryPopTrue, Ring!Pop, TypeOK, Ring!TypeOK
        <3>2. Len(queue') = Len(queue) - 1
            BY <3>1
        <3>3. CASE pc[t] = "drain"
            BY <2>1, <2>e, <3>3 DEF TryPopTrue
        <3>4. CASE pc[t] = "final"
            <4>1. avail' >= Len(queue') - (Len(accepted) - due)
                BY <1>s, <2>d, <3>1, <3>2, <3>4
            <4>2. Goto(t, "flog")
                BY <2>1, <3>4 DEF TryPopTrue
            <4> QED
                BY <2>f, <4>1, <4>2
        <3> QED
            BY <2>1, <3>3, <3>4 DEF TryPopTrue
    <2>2. CASE Log(t) \/ Count(t)
        <3>1. avail' = avail /\ queue' = queue
            BY <2>2 DEF Log, Count, ringVars
        <3>2. CASE pc[t] \in {"log", "count"}
            BY <2>2, <2>e, <3>2 DEF Log, Count
        <3>3. CASE pc[t] \in {"flog", "fcount"}
            <4>1. PICK label : Goto(t, label) /\ label \in {"final", "fcount"}
                BY <2>2, <3>3 DEF Log, Count
            <4> QED
                BY <2>d, <2>f, <3>1, <3>3, <4>1
        <3> QED
            BY <2>2, <3>2, <3>3 DEF Log, Count
    <2>3. CASE DrainEmpty(t) \/ CheckGoOn(t) \/ Wake(t)
        <3>1. PICK label : Goto(t, label) /\ label \in {"drain", "check", "idle"}
            BY <2>3 DEF DrainEmpty, CheckGoOn, Wake
        <3> QED
            BY <2>e, <3>1
    <2>4. CASE CheckStop(t)
        BY <2>4, <2>f DEF CheckStop, SyncWithStop, Ring!LearnAvail
    <2>5. CASE FinalEmpty(t)
        <3>1. InHand = <<>>
            BY <1>t, <2>a, <2>5, TheThread DEF InHand, FinalEmpty
        <3>2. Len(accepted) = Len(rows) + Len(queue)
            BY <1>t, <1>s, <3>1, TapeLengths
        <3>3. Len(rows) >= due
            BY <1>s, <2>5, <2>d, <3>2 DEF FinalEmpty
        <3>4. rows' = rows /\ Goto(t, "done")
            BY <2>5 DEF FinalEmpty, logVars, rows
        <3>5. pc'[thread'] = "done"
            BY <1>t, <2>a, <2>b, <3>4, ThreadMoves
        <3> QED
            BY <2>a, <2>c, <3>3, <3>4, <3>5 DEF FinalPass
    <2> QED
        BY <1>6, <2>1, <2>2, <2>3, <2>4, <2>5 DEF Run
<1> QED
    BY <1>1, <1>2, <1>3, <1>4, <1>5, <1>6 DEF Next

---------------------------------------------------------------------------
LEMMA InitInv == Init => Inv
<1> SUFFICES ASSUME Init PROVE Inv
    OBVIOUS
<1>1. /\ queue = <<>> /\ credit = Capacity /\ avail = 0 /\ dropped = 0 /\ got = 0
      /\ connected = FALSE /\ batch = <<>> /\ tape = <<>>
    BY DEF Init, Ring!InitWith, Logger!Init
<1>e. <<>> \in Seq(Seqs) /\ Len(<<>>) = 0 /\ 0 \in Seqs
    BY DEF Seqs
<1>r. Ring!TypeOK /\ Ring!BeliefsLag
    BY <1>1, <1>e DEF Ring!TypeOK, Ring!BeliefsLag
<1>2. TypeOK
    <2>1. /\ next_seq \in 0 .. MaxEvents /\ due \in 0 .. MaxEvents
          /\ processed \in 0 .. MaxEvents
        BY DEF Init
    <2>2. got_any \in [Relays -> BOOLEAN]
        BY DEF Init
    <2>3. pc \in [Relays -> {"unborn", "drain", "log", "count", "check", "idle",
                             "final", "flog", "fcount", "done"}]
        BY DEF Init
    <2>4. /\ accepted \in Seq(Seqs) /\ batch \in Seq(Seqs) /\ tape \in Seq(Seqs)
          /\ running \in BOOLEAN /\ stop_requested \in BOOLEAN /\ connected \in BOOLEAN
          /\ thread \in Relays \cup {NoThread} /\ ctl \in {"idle", "joining"}
        BY <1>1, <1>e DEF Init
    <2> QED
        BY <1>r, <2>1, <2>2, <2>3, <2>4 DEF TypeOK
<1>3. OneThread /\ FinalPass
    BY DEF Init, OneThread, FinalPass, Alive
<1>4. rows = <<>> /\ InHand = <<>>
    BY <1>1 DEF Init, rows, InHand
<1>5. Counted
    BY <1>4 DEF Init, Counted
<1>6. TapeIsAccepted
    <2>1. <<>> \o <<>> = <<>>
        BY <1>e, ConcatEmpty
    <2> QED
        BY <1>1, <1>4, <2>1 DEF Init, TapeIsAccepted
<1>7. Spaced /\ dropped = next_seq - Len(accepted)
    <2>1. accepted = <<>> /\ next_seq = 0 /\ Len(accepted) = 0
        BY <1>e DEF Init
    <2>2. next_seq = 0 /\ Len(accepted) = 0 /\ dropped = 0
        BY <1>1, <2>1
    <2>3. 1 .. Len(accepted) = {}
        BY <2>2
    <2> QED
        BY <2>2, <2>3 DEF Spaced
<1> QED
    BY <1>2, <1>r, <1>3, <1>5, <1>6, <1>7 DEF Inv

LEMMA NextInv == Inv /\ [Next]_vars => Inv'
<1> SUFFICES ASSUME Inv, [Next]_vars PROVE Inv'
    OBVIOUS
<1>1. CASE Next
    BY <1>1, RingStep, TypeStep, OneThreadStep, FinalPassStep, CountedStep, ProducerStep,
       TapeStep DEF Inv
<1>2. CASE UNCHANGED vars
    <2> USE <1>2 DEF vars, ringVars, prodVars, ctlVars, runVars, logVars
    <2>1. TypeOK' /\ Ring!BeliefsLag'
        BY DEF Inv, TypeOK, Ring!TypeOK, Ring!BeliefsLag
    <2>2. rows' = rows /\ InHand' = InHand
        BY DEF rows, InHand
    <2>3. OneThread' /\ FinalPass' /\ Counted'
        BY <2>2 DEF Inv, OneThread, FinalPass, Counted, Alive
    <2>4. TapeIsAccepted' /\ Spaced' /\ dropped' = next_seq' - Len(accepted')
        BY <2>2 DEF Inv, TapeIsAccepted, Spaced
    <2> QED
        BY <2>1, <2>3, <2>4 DEF Inv
<1> QED
    BY <1>1, <1>2

(* The inductive invariant holds throughout. *)
THEOREM Invariance == Spec => []Inv
    BY InitInv, NextInv, PTL DEF Spec

(* No counter of the relay or of the ring leaves its range. *)
THEOREM TypeCorrect == Spec => []TypeOK
<1>1. Inv => TypeOK
    BY DEF Inv
<1> QED
    BY <1>1, Invariance, PTL

(* Start and Stop, in any order and number, never put two consumers on the *)
(* ring.                                                                   *)
THEOREM SingleConsumerHolds == Spec => []SingleConsumer
<1>1. Inv => SingleConsumer
    BY DEF Inv, OneThread, SingleConsumer
<1> QED
    BY <1>1, Invariance, PTL

(* From TryPush returning true to the ticker plant nothing is lost,        *)
(* repeated or reordered.                                                  *)
THEOREM TapeIsAcceptedHolds == Spec => []TapeIsAccepted
<1>1. Inv => TapeIsAccepted
    BY DEF Inv
<1> QED
    BY <1>1, Invariance, PTL

(* processed() is never ahead of the tape. *)
THEOREM ProcessedIsLoggedHolds == Spec => []ProcessedIsLogged
<1>1. Inv => ProcessedIsLogged
    <2> SUFFICES ASSUME Inv PROVE ProcessedIsLogged
        OBVIOUS
    <2>1. processed \in Nat /\ Len(rows) \in Nat
        BY RowsType DEF Inv, TypeOK
    <2>2. CASE \E t \in Relays : pc[t] \in {"count", "fcount"}
        BY <2>1, <2>2 DEF Inv, Counted, ProcessedIsLogged
    <2>3. CASE ~ \E t \in Relays : pc[t] \in {"count", "fcount"}
        BY <2>1, <2>3 DEF Inv, Counted, ProcessedIsLogged
    <2> QED
        BY <2>2, <2>3
<1> QED
    BY <1>1, Invariance, PTL

(* The gaps q/tca_analysis.q counts on the tape are events TryPush really  *)
(* dropped.                                                                *)
THEOREM GapsAreDropsHolds == Spec => []GapsAreDrops
<1>1. Inv => GapsAreDrops
    <2> SUFFICES ASSUME Inv PROVE Missing =< dropped
        BY DEF GapsAreDrops, Inv
    <2> DEFINE n == Len(rows)
    <2>1. /\ n \in Nat /\ Len(accepted) \in Nat /\ n =< Len(accepted) /\ next_seq \in Nat
          /\ Len(accepted) =< next_seq /\ dropped = next_seq - Len(accepted)
        BY Bounds DEF Inv
    <2>2. CASE rows = <<>>
        BY <2>1, <2>2 DEF Missing
    <2>3. CASE rows # <<>>
        <3>1. n >= 1
            BY <2>3, RowsType DEF Inv
        <3>2. rows[1] = accepted[1] /\ rows[n] = accepted[n]
            BY <2>1, <3>1, TapeLengths DEF Inv
        <3>3. /\ 1 - 1 =< accepted[1]
              /\ accepted[n] < next_seq - (Len(accepted) - n)
            BY <2>1, <3>1 DEF Inv, Spaced
        <3>4. accepted[1] \in Nat /\ accepted[n] \in Nat
            <4>1. accepted \in Seq(Seqs) /\ Seqs \subseteq Nat
                BY DEF Inv, TypeOK, Seqs
            <4>2. 1 \in 1 .. Len(accepted) /\ n \in 1 .. Len(accepted)
                BY <2>1, <3>1
            <4> HIDE DEF n
            <4>3. accepted[1] \in Seqs /\ accepted[n] \in Seqs
                BY <4>1, <4>2
            <4> QED
                BY <4>1, <4>3
        <3>5. Missing = 1 + rows[n] - rows[1] - n
            BY <2>3 DEF Missing
        <3> HIDE DEF n
        <3> QED
            BY <2>1, <3>1, <3>2, <3>3, <3>4, <3>5
    <2> QED
        BY <2>2, <2>3
<1> QED
    BY <1>1, Invariance, PTL

(* When Stop() returns, every push that came before it is on the tape.     *)
THEOREM StopDrainsHolds == Spec => StopDrains
<1>1. Inv /\ [Next]_vars => [StopJoin => Len(rows) >= due]_vars
    BY DEF Inv, StopJoin, FinalPass
<1> QED
    BY <1>1, Invariance, PTL DEF Spec, StopDrains
============================================================================
