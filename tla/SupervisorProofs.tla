-------------------------- MODULE SupervisorProofs --------------------------
(***************************************************************************)
(* The supervisor for every window, threshold, patience and poll cycle:    *)
(* what it returns, what it counts and what a leak verdict rests on.       *)
(***************************************************************************)
EXTENDS Supervisor, TLAPS

(* Min and Max of two numbers, the only use of them on the clock and in    *)
(* the count.                                                              *)
LEMMA MinOfTwo ==
    ASSUME NEW a \in Int, NEW b \in Int
    PROVE  Min({a, b}) = IF a =< b THEN a ELSE b
    BY DEF Min

LEMMA MaxOfTwo ==
    ASSUME NEW a \in Int, NEW b \in Int
    PROVE  Max({a, b}) = IF a >= b THEN a ELSE b
    BY DEF Max

Samples == [age : Nat, rss : Nat]

LEMMA OlderSample ==
    ASSUME NEW s \in Samples, NEW d \in Nat
    PROVE  /\ s.age \in Nat
           /\ [s EXCEPT !.age = @ + d] \in Samples
           /\ [s EXCEPT !.age = @ + d].age = s.age + d
<1>1. s.age \in Nat /\ s.rss \in Nat /\ s = [age |-> s.age, rss |-> s.rss]
    BY DEF Samples
<1>2. [s EXCEPT !.age = @ + d] = [age |-> s.age + d, rss |-> s.rss]
    BY <1>1
<1> QED
    BY <1>1, <1>2 DEF Samples

---------------------------------------------------------------------------
(* The memory window. *)

(* Forgetting the loop's locals. *)
LEMMA ForgetStep ==
    ASSUME Forget
    PROVE  Ages' /\ mem_window' \in Seq(Samples) /\ elapsed' = 0
           /\ best_reward' = None /\ last_reward_step' = None /\ plateau_count' = 0
           /\ best_from' = "none"
    BY DEF Forget, Ages

(* The window after the popleft() loop: samples of the old one and the new *)
(* one, none too old, and full only after Window has been supervised.      *)
LEMMA PollWindow ==
    ASSUME Inv, PollMemory
    PROVE  /\ mem_window' \in Seq(Samples)
           /\ Ages'
           /\ \A s \in ToSet(mem_window') : s.age =< Window
           /\ FullWindow(mem_window') => elapsed = Window
<1> USE SupervisorAssumption
<1>1. PICK r \in Sizes :
          LET window == Append(mem_window, [age |-> 0, rss |-> r]) IN
          \E k \in 1 .. Len(window) :
             /\ FirstInWindow(window, k)
             /\ mem_window' = SubSeq(window, k, Len(window))
    BY DEF PollMemory
<1> DEFINE new == [age |-> 0, rss |-> r]
           w == Append(mem_window, new)
           n == Len(mem_window)
<1>2. PICK k \in 1 .. Len(w) :
          FirstInWindow(w, k) /\ mem_window' = SubSeq(w, k, Len(w))
    BY <1>1
<1>3. mem_window \in Seq(Samples) /\ elapsed \in Nat /\ elapsed =< Window /\ n \in Nat
    BY DEF Inv, TypeOK, Samples
<1>4. new \in Samples /\ new.age = 0
    BY DEF Samples
<1>5. /\ w \in Seq(Samples) /\ Len(w) = n + 1 /\ w[n + 1] = new
      /\ \A i \in 1 .. n : w[i] = mem_window[i]
    BY <1>3, <1>4
<1>6. ASSUME NEW i \in 1 .. n + 1 PROVE w[i].age \in Nat
    <2>1. w[i] \in Samples
        BY <1>5
    <2> QED
        BY <2>1 DEF Samples
<1>7. \A i, j \in 1 .. n + 1 : i =< j => w[i].age >= w[j].age
    <2> SUFFICES ASSUME NEW i \in 1 .. n + 1, NEW j \in 1 .. n + 1, i =< j
                 PROVE  w[i].age >= w[j].age
        OBVIOUS
    <2>1. CASE j = n + 1
        BY <1>4, <1>5, <1>6, <2>1
    <2>2. CASE j # n + 1
        <3>1. i \in 1 .. n /\ j \in 1 .. n
            BY <1>3, <2>2
        <3> QED
            BY <1>5, <3>1 DEF Inv, Ages
    <2> QED
        BY <2>1, <2>2
<1>8. elapsed < Window => \A i \in 1 .. n + 1 : w[i].age =< elapsed
    <2> SUFFICES ASSUME elapsed < Window, NEW i \in 1 .. n + 1
                 PROVE  w[i].age =< elapsed
        OBVIOUS
    <2>1. CASE i = n + 1
        BY <1>3, <1>4, <1>5, <2>1
    <2>2. CASE i # n + 1
        <3>1. i \in 1 .. n
            BY <1>3, <2>2
        <3> QED
            BY <1>5, <3>1 DEF Inv, Ages
    <2> QED
        BY <2>1, <2>2
<1> HIDE DEF w, new, n
<1>9. k \in 1 .. n + 1 /\ w[k].age =< Window
    BY <1>2, <1>5 DEF FirstInWindow
<1>10. /\ mem_window' \in Seq(Samples) /\ Len(mem_window') = n + 2 - k
       /\ \A i \in 1 .. n + 2 - k : mem_window'[i] = w[i + k - 1]
    BY <1>2, <1>3, <1>5, <1>9
<1>11. elapsed' = elapsed
    BY DEF PollMemory
<1>12. Ages'
    <2>1. \A i, j \in 1 .. Len(mem_window') :
              i =< j => mem_window'[i].age >= mem_window'[j].age
        <3> SUFFICES ASSUME NEW i \in 1 .. n + 2 - k, NEW j \in 1 .. n + 2 - k, i =< j
                     PROVE  mem_window'[i].age >= mem_window'[j].age
            BY <1>10
        <3>1. i + k - 1 \in 1 .. n + 1 /\ j + k - 1 \in 1 .. n + 1 /\ i + k - 1 =< j + k - 1
            BY <1>3, <1>9
        <3> QED
            BY <1>7, <1>10, <3>1
    <2>2. ASSUME elapsed < Window, NEW i \in 1 .. n + 2 - k
          PROVE  mem_window'[i].age =< elapsed
        <3>1. i + k - 1 \in 1 .. n + 1
            BY <1>3, <1>9
        <3> QED
            BY <1>8, <1>10, <2>2, <3>1
    <2> QED
        BY <1>10, <1>11, <2>1, <2>2 DEF Ages
<1>13. ASSUME NEW s \in ToSet(mem_window') PROVE s.age =< Window
    <2>1. PICK i \in 1 .. n + 2 - k : s = mem_window'[i]
        BY <1>10, <1>13 DEF ToSet
    <2>2. i + k - 1 \in 1 .. n + 1 /\ k =< i + k - 1
        BY <1>3, <1>9
    <2>3. w[k].age >= w[i + k - 1].age
        BY <1>7, <1>9, <2>2
    <2>4. w[k].age \in Nat /\ w[i + k - 1].age \in Nat
        BY <1>6, <1>9, <2>2
    <2>5. s = w[i + k - 1]
        BY <1>10, <2>1
    <2>6. s.age \in Nat /\ w[k].age >= s.age
        BY <2>3, <2>4, <2>5
    <2>7. Window \in Nat
        OBVIOUS
    <2> QED
        BY <1>9, <2>4, <2>6, <2>7
<1>14. ASSUME FullWindow(mem_window') PROVE elapsed = Window
    <2>1. Head(mem_window') = mem_window'[1]
        BY <1>10
    <2>2. mem_window'[1] = w[k]
        BY <1>3, <1>9, <1>10
    <2>3. w[k].age >= Window /\ w[k].age \in Nat
        BY <1>6, <1>9, <1>14, <2>1, <2>2 DEF FullWindow
    <2> QED
        BY <1>3, <1>8, <1>9, <2>3
<1> QED
    BY <1>10, <1>12, <1>13, <1>14

(* Between two polls every sample ages by the length of the cycle.         *)
LEMMA SleepWindow ==
    ASSUME Inv, Sleep
    PROVE  mem_window' \in Seq(Samples) /\ Ages' /\ elapsed' \in 0 .. Window
<1> USE SupervisorAssumption
<1>1. PICK d \in Cycles :
          /\ mem_window' = [i \in 1 .. Len(mem_window) |->
                               [mem_window[i] EXCEPT !.age = @ + d]]
          /\ elapsed' = Min({Window, elapsed + d})
    BY DEF Sleep
<1> DEFINE n == Len(mem_window)
<1>2. d \in Nat /\ mem_window \in Seq(Samples) /\ elapsed \in 0 .. Window /\ n \in Nat
    BY DEF Inv, TypeOK, Samples
<1>3. elapsed' = IF Window =< elapsed + d THEN Window ELSE elapsed + d
    BY <1>1, <1>2, MinOfTwo
<1>4. ASSUME NEW i \in 1 .. n
      PROVE  /\ [mem_window[i] EXCEPT !.age = @ + d] \in Samples
             /\ [mem_window[i] EXCEPT !.age = @ + d].age = mem_window[i].age + d
             /\ mem_window[i].age \in Nat
    <2>1. mem_window[i] \in Samples
        BY <1>2
    <2> QED
        BY <1>2, <2>1, OlderSample
<1>5. mem_window' \in Seq(Samples) /\ Len(mem_window') = n
    BY <1>1, <1>2, <1>4
<1>6. \A i \in 1 .. n : mem_window'[i].age = mem_window[i].age + d
    BY <1>1, <1>4
<1>7. \A i, j \in 1 .. n : i =< j => mem_window[i].age >= mem_window[j].age
    BY DEF Inv, Ages
<1>8. elapsed < Window => \A i \in 1 .. n : mem_window[i].age =< elapsed
    BY DEF Inv, Ages
<1> HIDE DEF n
<1>9. ASSUME NEW i \in 1 .. n, NEW j \in 1 .. n, i =< j
      PROVE  mem_window'[i].age >= mem_window'[j].age
    <2>1. mem_window[i].age >= mem_window[j].age
        BY <1>7, <1>9
    <2>2. mem_window[i].age \in Nat /\ mem_window[j].age \in Nat
        BY <1>4
    <2> QED
        BY <1>2, <1>6, <2>1, <2>2
<1>10. ASSUME elapsed' < Window, NEW i \in 1 .. n
       PROVE  mem_window'[i].age =< elapsed'
    <2>1. elapsed < Window /\ elapsed' = elapsed + d
        BY <1>2, <1>3, <1>10
    <2>2. mem_window[i].age =< elapsed /\ mem_window[i].age \in Nat
        BY <1>4, <1>8, <2>1
    <2> QED
        BY <1>2, <1>6, <2>1, <2>2
<1>11. Ages'
    BY <1>5, <1>9, <1>10 DEF Ages
<1> QED
    BY <1>2, <1>3, <1>5, <1>11

---------------------------------------------------------------------------
(* Types. *)

LEMMA LatestType ==
    ASSUME TypeOK
    PROVE  /\ own.step \in Nat \cup {None} /\ stale.step \in Nat \cup {None}
           /\ Latest.step \in Nat \cup {None} /\ Latest.reward \in Nat \cup {None}
    BY DEF TypeOK, File, Latest

LEMMA MainType ==
    ASSUME Inv, Main \/ Interrupt \/ Raise
    PROVE  TypeOK'
<1> USE SupervisorAssumption
<1>t. TypeOK
    BY DEF Inv
<1>u. ASSUME UNCHANGED trainerVars, stale' = stale PROVE
          /\ trainer' \in {"starting", "training", "saving", "resaving", "exited"}
          /\ returncode' \in {None, -15, -9, -2, 0, 1} /\ (Exited' => returncode' # None)
          /\ saved' \in {"no", "partial", "whole", "overlapped"}
          /\ own' \in File /\ stale' \in File
    BY <1>t, <1>u DEF TypeOK, trainerVars, Exited
<1>m. ASSUME UNCHANGED memVars
      PROVE  mem_window' \in Seq([age : Nat, rss : Nat]) /\ elapsed' \in 0 .. Window
    BY <1>t, <1>m DEF TypeOK, memVars
<1>f. ASSUME Forget
      PROVE  /\ mem_window' \in Seq([age : Nat, rss : Nat]) /\ elapsed' \in 0 .. Window
             /\ best_reward' \in Nat \cup {None} /\ last_reward_step' \in Nat \cup {None}
             /\ plateau_count' \in Nat
             /\ best_from' \in {"none", "stale", "own"}
    BY <1>f DEF Forget
<1>r. ASSUME UNCHANGED rewardVars
      PROVE  /\ best_reward' \in Nat \cup {None} /\ last_reward_step' \in Nat \cup {None}
             /\ plateau_count' \in Nat
             /\ best_from' \in {"none", "stale", "own"}
    BY <1>t, <1>r DEF TypeOK, rewardVars
<1>1. CASE PollMemory
    <2>1. mem_window' \in Seq([age : Nat, rss : Nat]) /\ elapsed' = elapsed
        BY <1>1, PollWindow DEF Samples, PollMemory
    <2>2. pc' \in {"terminate", "reward"} /\ reason' \in {"leak", reason}
        BY <1>1 DEF PollMemory
    <2> QED
        BY <1>1, <1>t, <1>u, <1>r, <2>1, <2>2 DEF PollMemory, TypeOK
<1>2. CASE Sleep
    <2>1. mem_window' \in Seq([age : Nat, rss : Nat]) /\ elapsed' \in 0 .. Window
        BY <1>2, SleepWindow DEF Samples
    <2> QED
        BY <1>2, <1>t, <1>u, <1>r, <2>1 DEF Sleep, TypeOK
<1>3. CASE LoopEnds
    BY <1>3, <1>t, <1>u, <1>f DEF LoopEnds, TypeOK
<1>4. CASE Finish
    <2>1. exit_code' \in {-15, -9, -2, 0, 1, 2, 130}
        BY <1>4, <1>t DEF Finish, TypeOK
    <2> QED
        BY <1>4, <1>t, <1>u, <1>m, <1>r, <2>1 DEF Finish, TypeOK
<1>5. CASE RewardUnknown
    BY <1>5, <1>t, <1>u, <1>m, <1>r DEF RewardUnknown, TypeOK
<1>6. CASE RewardSeenBefore
    BY <1>6, <1>t, <1>u, <1>m, <1>r DEF RewardSeenBefore, TypeOK
<1>7. CASE RewardImproves
    <2>1. best_from' \in {"none", "stale", "own"}
        BY <1>7 DEF RewardImproves
    <2>2. best_reward' \in Nat \cup {None} /\ last_reward_step' \in Nat \cup {None}
        BY <1>7, <1>t, LatestType DEF RewardImproves
    <2> QED
        BY <1>7, <1>t, <1>u, <1>m, <2>1, <2>2 DEF RewardImproves, TypeOK
<1>8. CASE RewardFlat
    <2>1. plateau_count' \in Nat /\ last_reward_step' \in Nat \cup {None}
        BY <1>8, <1>t, LatestType DEF RewardFlat, TypeOK
    <2>2. pc' \in {"terminate", "sleep"} /\ reason' \in {"plateau", reason}
        BY <1>8 DEF RewardFlat
    <2> QED
        BY <1>8, <1>t, <1>u, <1>m, <2>1, <2>2 DEF RewardFlat, TypeOK
<1>9. CASE TrainerGone
    <2>0. reason \in {"leak", "plateau", "interrupt"}
        BY <1>9 DEF TrainerGone, Inv, TypeOK, Phases
    <2>1. exit_code' \in {2, 0, 130} /\ pc' \in {"returned", "finish"}
        BY <1>9, <2>0 DEF TrainerGone, Terminated
    <2> QED
        BY <1>9, <1>t, <1>u, <1>m, <1>r, <2>1 DEF TrainerGone, Terminated, TypeOK
<1>10. CASE SendTerm
    BY <1>10, <1>t, <1>u, <1>m, <1>r DEF SendTerm, TypeOK
<1>11. CASE GraceExpires
    BY <1>11, <1>t, <1>u, <1>m, <1>r DEF GraceExpires, TypeOK
<1>12. CASE InterruptedExit
    BY <1>12, <1>t, <1>u, <1>m, <1>r DEF InterruptedExit, TypeOK
<1>13. CASE InterruptedTimeout
    BY <1>13, <1>t, <1>u, <1>m, <1>r DEF InterruptedTimeout, TypeOK
<1>14. CASE Interrupt
    BY <1>14, <1>t, <1>u, <1>f DEF Interrupt, TypeOK
<1>15. CASE Raise
    BY <1>15, <1>t, <1>u, <1>f DEF Raise, TypeOK
<1> QED
    BY <1>1, <1>2, <1>3, <1>4, <1>5, <1>6, <1>7, <1>8, <1>9, <1>10, <1>11, <1>12,
       <1>13, <1>14, <1>15 DEF Main

(* The trainer touches nothing of the supervisor's. *)
supervisorVars == <<pc, memVars, rewardVars, exit_code, reason, stale>>

LEMMA TrainerFrame ==
    ASSUME Trainer \/ Killed
    PROVE  UNCHANGED supervisorVars
    BY DEF Trainer, Killed, TrainerReady, Learn, Evaluate, Learned, Crash, DefaultSignal,
           SaveOnSignal, Saved, Exit, supervisorVars

LEMMA TrainerType ==
    ASSUME Inv, Trainer \/ Killed
    PROVE  TypeOK'
<1> USE SupervisorAssumption
<1>t. TypeOK
    BY DEF Inv
<1>f. /\ pc' = pc /\ mem_window' = mem_window /\ elapsed' = elapsed
      /\ best_reward' = best_reward /\ last_reward_step' = last_reward_step
      /\ plateau_count' = plateau_count /\ best_from' = best_from
      /\ exit_code' = exit_code /\ reason' = reason /\ stale' = stale
    BY TrainerFrame DEF supervisorVars, memVars, rewardVars
<1> SUFFICES
          /\ trainer' \in {"starting", "training", "saving", "resaving", "exited"}
          /\ returncode' \in {None, -15, -9, -2, 0, 1} /\ (Exited' => returncode' # None)
          /\ pending' \subseteq {"INT", "TERM", "KILL"}
          /\ saved' \in {"no", "partial", "whole", "overlapped"}
          /\ own' \in File
    BY <1>t, <1>f DEF TypeOK
<1> USE DEF TypeOK, Exited
<1>0. CASE TrainerReady
    BY <1>0, <1>t DEF TrainerReady
<1>1. CASE Learn
    BY <1>1, <1>t DEF Learn, File
<1>2. CASE Evaluate
    <2>1. PICK r \in Rewards : own' = [step |-> own.step + 1, reward |-> r]
        BY <1>2 DEF Evaluate
    <2>2. own.step \in Nat
        BY <1>2, <1>t, LatestType DEF Evaluate, None
    <2>3. own' \in File
        BY <2>1, <2>2 DEF File
    <2> QED
        BY <1>2, <1>t, <2>3 DEF Evaluate
<1>3. CASE Learned
    BY <1>3, <1>t DEF Learned
<1>4. CASE Crash
    BY <1>4, <1>t DEF Crash, Exit, None
<1>5. CASE DefaultSignal
    BY <1>5, <1>t DEF DefaultSignal, Exit, None
<1>6. CASE SaveOnSignal
    BY <1>6, <1>t DEF SaveOnSignal
<1>7. CASE Saved
    BY <1>7, <1>t DEF Saved, Exit, None
<1>8. CASE Killed
    BY <1>8, <1>t DEF Killed, Exit, None
<1> QED
    BY <1>0, <1>1, <1>2, <1>3, <1>4, <1>5, <1>6, <1>7, <1>8 DEF Trainer

---------------------------------------------------------------------------
(* The other parts of the invariant. *)

LEMMA AgesStep ==
    ASSUME Inv, Next
    PROVE  Ages'
<1>1. CASE PollMemory
    BY <1>1, PollWindow
<1>2. CASE Sleep
    BY <1>2, SleepWindow
<1>3. CASE LoopEnds \/ Interrupt \/ Raise
    BY <1>3, ForgetStep DEF LoopEnds, Interrupt, Raise
<1>4. CASE UNCHANGED memVars
    BY <1>4 DEF memVars, Inv, Ages
<1>5. CASE Trainer \/ Killed
    BY <1>4, <1>5, TrainerFrame DEF supervisorVars
<1> QED
    BY <1>1, <1>2, <1>3, <1>4, <1>5
    DEF Next, Main, Finish, RewardUnknown, RewardImproves, RewardSeenBefore,
        RewardFlat, TrainerGone, Terminated, SendTerm, GraceExpires, InterruptedExit,
        InterruptedTimeout

(* A flat evaluation is one of this trainer's, and a new one.              *)
LEMMA FlatIsOwn ==
    ASSUME Inv, RewardFlat
    PROVE  own.step \in Nat /\ own.step > 0 /\ own.step # last_reward_step
           /\ Latest.step = own.step
<1>1. own.step # None
    BY DEF Inv, Counting, RewardFlat, NewBest, NewEval, Latest
<1> QED
    BY <1>1, LatestType DEF Inv, RewardFlat, NewEval, Latest, None

LEMMA CountingStep ==
    ASSUME Inv, Next
    PROVE  Counting'
<1>t. TypeOK /\ Counting
    BY DEF Inv
<1>o. own.step \in Nat \cup {None} /\ plateau_count \in Nat
    BY <1>t, LatestType DEF TypeOK
<1>1. CASE UNCHANGED <<rewardVars, trainer, own, stale>>
    BY <1>1, <1>t DEF Counting, rewardVars
<1>2. CASE LoopEnds \/ Interrupt \/ Raise
    <2>1. UNCHANGED <<trainer, own, stale>> /\ plateau_count' = 0 /\ best_reward' = None
        BY <1>2, ForgetStep DEF LoopEnds, Interrupt, Raise, trainerVars
    <2> QED
        BY <1>t, <1>o, <2>1 DEF Counting, None
<1>3. CASE RewardImproves
    <2>1. UNCHANGED <<trainer, own, stale>> /\ plateau_count' = 0
          /\ last_reward_step' = Latest.step
        BY <1>3 DEF RewardImproves, trainerVars
    <2>2. own.step = None => Latest.step = stale.step
        BY DEF Latest
    <2> QED
        BY <1>t, <1>o, <2>1, <2>2 DEF Counting, None
<1>4. CASE RewardFlat
    <2>1. UNCHANGED <<trainer, own, stale>> /\ plateau_count' = plateau_count + 1
          /\ last_reward_step' = own.step
        BY <1>4, FlatIsOwn DEF RewardFlat, trainerVars
    <2>2. own.step \in Nat /\ own.step > 0 /\ plateau_count < own.step
        BY <1>4, <1>t, FlatIsOwn DEF Counting
    <2> QED
        BY <1>t, <1>o, <2>1, <2>2 DEF Counting, None
<1>5. CASE Trainer \/ Killed
    <2>1. UNCHANGED <<best_reward, last_reward_step, plateau_count, stale>>
        BY <1>5, TrainerFrame DEF supervisorVars, rewardVars
    <2>0. CASE TrainerReady
        BY <2>0, <2>1, <1>t DEF TrainerReady, Counting
    <2>2. CASE Learn
        <3>1. own'.step = 0 /\ trainer' = "training" /\ plateau_count = 0
            BY <2>2, <1>t DEF Learn, Counting, NoFile
        <3> QED
            BY <2>1, <3>1 DEF Counting, None
    <2>3. CASE Evaluate
        <3>1. own'.step = own.step + 1 /\ trainer' = "training" /\ own.step \in Nat
            BY <2>3, <1>t, <1>o DEF Evaluate, None
        <3>2. plateau_count =< own.step
            BY <1>t, <3>1 DEF Counting
        <3> QED
            BY <1>o, <2>1, <3>1, <3>2 DEF Counting, None
    <2>4. CASE Learned \/ Crash \/ DefaultSignal \/ SaveOnSignal \/ Saved \/ Killed
        <3>1. own' = own /\ trainer' \in {"saving", "resaving", "exited"}
            BY <2>4 DEF Learned, Crash, DefaultSignal, SaveOnSignal, Saved, Killed, Exit
        <3> QED
            BY <1>t, <2>1, <3>1 DEF Counting
    <2> QED
        BY <1>5, <2>0, <2>2, <2>3, <2>4 DEF Trainer
<1> QED
    BY <1>1, <1>2, <1>3, <1>4, <1>5
    DEF Next, Main, PollMemory, Sleep, Finish, RewardUnknown, RewardSeenBefore,
        TrainerGone, Terminated, SendTerm, GraceExpires, InterruptedExit,
        InterruptedTimeout, trainerVars

LEMMA PhasesStep ==
    ASSUME Inv, Next
    PROVE  Phases' /\ ReturnIsTruthful'
<1>t. TypeOK /\ Phases /\ ReturnIsTruthful
    BY DEF Inv
<1> USE DEF Phases, ReturnIsTruthful, Exited
<1>1. CASE Trainer \/ Killed
    <2>1. UNCHANGED <<pc, reason, exit_code>>
        BY <1>1, TrainerFrame DEF supervisorVars
    <2>2. trainer # "exited" => pc \notin {"finish", "returned"}
        BY <1>t
    <2>3. trainer # "exited"
        BY <1>1, <1>t DEF Trainer, TrainerReady, Learn, Evaluate, Learned, Crash, DefaultSignal,
                          SaveOnSignal, Saved, Killed
    <2>4. trainer' = "exited" /\ returncode' = 0 => saved' \in {"whole", "overlapped"}
        BY <1>1, <2>3 DEF Trainer, TrainerReady, Learn, Evaluate, Learned, Crash, DefaultSignal,
                          SaveOnSignal, Saved, Killed, Exit
    <2> QED
        BY <1>t, <2>1, <2>2, <2>3, <2>4
<1>2. ASSUME UNCHANGED <<trainer, returncode, saved>>
      PROVE  trainer' = "exited" /\ returncode' = 0 => saved' \in {"whole", "overlapped"}
    BY <1>2, <1>t
<1>3. CASE PollMemory
    BY <1>2, <1>3, <1>t DEF PollMemory, trainerVars
<1>4. CASE Sleep \/ LoopEnds \/ RewardUnknown \/ RewardImproves \/ RewardSeenBefore
    BY <1>2, <1>4, <1>t DEF Sleep, LoopEnds, RewardUnknown, RewardImproves,
                            RewardSeenBefore, trainerVars
<1>5. CASE RewardFlat
    BY <1>2, <1>5, <1>t DEF RewardFlat, trainerVars
<1>6. CASE Finish
    BY <1>2, <1>6, <1>t DEF Finish, trainerVars
<1>7. CASE TrainerGone
    <2>1. reason \in {"leak", "plateau", "interrupt"}
        BY <1>7, <1>t DEF TrainerGone, TypeOK
    <2>2. \/ pc' = "returned" /\ exit_code' = 130
          \/ pc' = "finish"
        BY <1>7, <2>1 DEF TrainerGone, Terminated
    <2>3. UNCHANGED <<trainer, returncode, saved, reason>> /\ trainer = "exited"
        BY <1>7 DEF TrainerGone, Terminated, trainerVars
    <2> QED
        BY <1>2, <2>2, <2>3
<1>8. CASE SendTerm \/ GraceExpires
    BY <1>2, <1>8, <1>t DEF SendTerm, GraceExpires, trainerVars
<1>9. CASE InterruptedExit \/ InterruptedTimeout
    BY <1>2, <1>9, <1>t DEF InterruptedExit, InterruptedTimeout, trainerVars
<1>10. CASE Interrupt \/ Raise
    BY <1>2, <1>10, <1>t DEF Interrupt, Raise, trainerVars
<1> QED
    BY <1>1, <1>3, <1>4, <1>5, <1>6, <1>7, <1>8, <1>9, <1>10 DEF Next, Main

LEMMA LeakStep ==
    ASSUME Inv, Next
    PROVE  LeakVerdictSound'
<1>t. TypeOK /\ Phases /\ LeakVerdictSound
    BY DEF Inv
<1>1. CASE PollMemory
    <2> SUFFICES ASSUME reason' = "leak" PROVE LeakVerdictSound'
        BY DEF LeakVerdictSound
    <2>1. reason = "none" /\ elapsed' = elapsed
        BY <1>1, <1>t DEF PollMemory, Phases
    <2>2. FullWindow(mem_window') /\ Growth(mem_window') > Threshold
        BY <1>1, <2>1 DEF PollMemory
    <2> QED
        BY <1>1, <2>1, <2>2, PollWindow DEF LeakVerdictSound
<1>2. CASE Sleep \/ RewardUnknown \/ RewardImproves \/ RewardSeenBefore
    BY <1>2, <1>t DEF Sleep, RewardUnknown, RewardImproves, RewardSeenBefore, Phases,
                      LeakVerdictSound
<1>3. CASE RewardFlat
    BY <1>3, <1>t DEF RewardFlat, Phases, LeakVerdictSound
<1>4. CASE LoopEnds \/ Interrupt \/ Raise
    BY <1>4, <1>t DEF LoopEnds, Interrupt, Raise, Phases, LeakVerdictSound
<1>5. ASSUME UNCHANGED memVars, reason' = reason, pc # "raised" PROVE LeakVerdictSound'
    BY <1>5, <1>t DEF LeakVerdictSound, memVars
<1>6. CASE Finish \/ TrainerGone \/ SendTerm \/ GraceExpires
    BY <1>5, <1>6 DEF Finish, TrainerGone, Terminated, SendTerm, GraceExpires
<1>7. CASE InterruptedExit \/ InterruptedTimeout
    BY <1>5, <1>7 DEF InterruptedExit, InterruptedTimeout
<1>8. CASE pc # "raised" /\ (Trainer \/ Killed)
    BY <1>5, <1>8, TrainerFrame DEF supervisorVars
<1> QED
    BY <1>1, <1>2, <1>3, <1>4, <1>6, <1>7, <1>8 DEF Next, Main

---------------------------------------------------------------------------
LEMMA InitInv == Init => Inv
<1> SUFFICES ASSUME Init PROVE Inv
    OBVIOUS
<1> USE SupervisorAssumption
<1>1. own = NoFile /\ own \in File /\ stale \in File
    <2>1. NoFile \in File
        BY DEF NoFile, File
    <2>2. [step : StaleSteps, reward : Rewards] \subseteq File
        BY DEF File
    <2> QED
        BY <2>1, <2>2 DEF Init
<1>2. TypeOK
    BY <1>1 DEF Init, TypeOK, Exited
<1>3. Ages /\ Counting /\ Phases /\ ReturnIsTruthful /\ LeakVerdictSound
    BY DEF Init, Ages, Counting, Phases, ReturnIsTruthful, LeakVerdictSound, Exited, NoFile,
           None
<1> QED
    BY <1>2, <1>3 DEF Inv

LEMMA NextInv == Inv /\ [Next]_vars => Inv'
<1> SUFFICES ASSUME Inv, [Next]_vars PROVE Inv'
    OBVIOUS
<1>1. CASE Next
    <2>1. TypeOK'
        BY <1>1, MainType, TrainerType DEF Next
    <2> QED
        BY <1>1, <2>1, AgesStep, CountingStep, PhasesStep, LeakStep DEF Inv
<1>2. CASE UNCHANGED vars
    BY <1>2 DEF vars, memVars, rewardVars, trainerVars, Inv, TypeOK, Ages, Counting, Phases,
                ReturnIsTruthful, LeakVerdictSound, Exited
<1> QED
    BY <1>1, <1>2

(* Every state of main() and the trainer satisfies the inductive invariant.*)
THEOREM Invariance == Spec => []Inv
    BY InitInv, NextInv, PTL DEF Spec

(* main() returns only past a trainer that is gone, and returns 0 only if  *)
(* a save ran to its end, however the signals and the exits interleave.    *)
THEOREM ReturnIsTruthfulHolds == Spec => []ReturnIsTruthful
<1>1. Inv => ReturnIsTruthful
    BY DEF Inv
<1> QED
    BY <1>1, Invariance, PTL

(* plateau_count never exceeds the evaluations this trainer has reported,  *)
(* however often one is polled and whatever an earlier run's file says.    *)
THEOREM EvalCountedOnceHolds == Spec => []EvalCountedOnce
<1>1. Inv => EvalCountedOnce
    <2> SUFFICES ASSUME Inv PROVE EvalCountedOnce
        OBVIOUS
    <2>1. own.step \in Nat \cup {None} /\ plateau_count \in Nat
        BY LatestType DEF Inv, TypeOK
    <2>2. Max({0, own.step}) = IF 0 >= own.step THEN 0 ELSE own.step
        BY <2>1, MaxOfTwo DEF None
    <2>3. own.step = None => plateau_count = 0
        BY DEF Inv, Counting
    <2>4. own.step >= 0 => plateau_count =< own.step
        BY DEF Inv, Counting
    <2> QED
        BY <2>1, <2>2, <2>3, <2>4 DEF EvalCountedOnce, None
<1> QED
    BY <1>1, Invariance, PTL

(* A leak verdict rests on a window that has filled and on growth inside   *)
(* it, whatever the length of the poll cycles.                             *)
THEOREM LeakVerdictSoundHolds == Spec => []LeakVerdictSound
<1>1. Inv => LeakVerdictSound
    BY DEF Inv
<1> QED
    BY <1>1, Invariance, PTL
============================================================================
