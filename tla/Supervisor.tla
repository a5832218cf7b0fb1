----------------------------- MODULE Supervisor -----------------------------
(***************************************************************************)
(* The training supervisor (python/train/supervisor.py) and the trainer it *)
(* launches (python/train/train_sac.py): two processes that share signals, *)
(* an exit status and the event files under logs/.                         *)
(*                                                                         *)
(* time.monotonic() is only read as the age of a sample, so a sample       *)
(* carries its age and the clock needs no bound.  A poll cycle is the      *)
(* sleep plus the time its own work takes: any of the lengths in Cycles.   *)
(* Of an event file only the last evaluation is read.  The file of an      *)
(* earlier run is the newest one until this trainer opens its own.         *)
(***************************************************************************)
EXTENDS Integers, Sequences, SequencesExt, FiniteSetsExt

CONSTANTS Window,               \* _MEM_WINDOW_SECONDS
          Threshold,            \* _MEM_LEAK_THRESHOLD_MB
          Patience,             \* _PLATEAU_PATIENCE
          Cycles,               \* durations of a poll cycle
          Sizes,                \* RSS readings
          Rewards,              \* values of rollout/ep_rew_mean
          StaleSteps,           \* last step of an earlier run
          MaxEvals              \* bound on the trainer's evaluations

ASSUME SupervisorAssumption ==
    /\ Window \in Nat /\ Threshold \in Nat /\ Patience \in Nat \ {0}
    /\ Cycles \subseteq Nat \ {0} /\ Sizes \subseteq Nat /\ Rewards \subseteq Nat
    /\ MaxEvals \in Nat /\ StaleSteps \subseteq Nat \ {0}

VARIABLES pc,                   \* where main() is
          mem_window, best_reward, last_reward_step, plateau_count,
          exit_code,
          reason,               \* the argument of _terminate
          trainer,              \* phase of the trainer process
          returncode, pending,  \* its exit status and undelivered signals
          saved,                \* model and normalisation statistics on disk
          own, stale,           \* last evaluation in its file, in the earlier one
          elapsed,              \* history: time supervised, up to Window
          best_from             \* history: the file best_reward was read from

memVars == <<mem_window, elapsed>>
rewardVars == <<best_reward, last_reward_step, plateau_count, best_from>>
trainerVars == <<trainer, returncode, saved, own>>
vars == <<pc, memVars, rewardVars, exit_code, reason, trainerVars, pending, stale>>

None == -1                      \* Python's None; also an event file not there yet
NoFile == [step |-> None, reward |-> None]
Exited == trainer = "exited"

Init ==
    /\ pc = "poll"
    /\ mem_window = <<>> /\ elapsed = 0
    /\ best_reward = None /\ last_reward_step = None /\ plateau_count = 0
    /\ best_from = "none"
    /\ exit_code = 0 /\ reason = "none"
    /\ trainer = "starting" /\ returncode = None /\ pending = {}
    /\ saved = "no"
    /\ own = NoFile /\ stale \in {NoFile} \cup [step : StaleSteps, reward : Rewards]

(* The loop's locals, once nothing but the status file reads them again.   *)
Forget ==
    /\ mem_window' = <<>> /\ elapsed' = 0
    /\ best_reward' = None /\ last_reward_step' = None /\ plateau_count' = 0
    /\ best_from' = "none"

---------------------------------------------------------------------------
(* main(): one turn of the polling loop. *)

(* Where the popleft() loop stops; the sample just appended has age 0.     *)
FirstInWindow(window, k) ==
    /\ window[k].age =< Window
    /\ \A i \in 1 .. k - 1 : window[i].age > Window

FullWindowAlways(window) == TRUE
FullWindow(window) == window # <<>> /\ Head(window).age >= Window
Growth(window) == Last(window).rss - Min({ s.rss : s \in ToSet(window) })

PollMemory ==
    /\ pc = "poll" /\ ~Exited
    /\ \E r \in Sizes :
          LET window == Append(mem_window, [age |-> 0, rss |-> r]) IN
          \E k \in 1 .. Len(window) :
             /\ FirstInWindow(window, k)
             /\ mem_window' = SubSeq(window, k, Len(window))
    /\ IF FullWindow(mem_window') /\ Growth(mem_window') > Threshold
       THEN pc' = "terminate" /\ reason' = "leak"
       ELSE pc' = "reward" /\ reason' = reason
    /\ UNCHANGED <<elapsed, rewardVars, exit_code, trainerVars, pending, stale>>

(* The newest event file; a file without the tag, or one that cannot be    *)
(* read now, gives an empty series.                                        *)
Latest == IF own.step = None THEN stale ELSE own
NewBest == best_reward = None \/ Latest.reward > best_reward

RewardUnknown ==
    /\ pc = "reward"
    /\ pc' = "sleep"
    /\ UNCHANGED <<memVars, rewardVars, exit_code, reason, trainerVars, pending, stale>>

RewardImproves ==
    /\ pc = "reward" /\ Latest.step > 0
    /\ NewBest
    /\ best_reward' = Latest.reward
    /\ last_reward_step' = Latest.step
    /\ plateau_count' = 0
    /\ best_from' = IF own.step = None THEN "stale" ELSE "own"
    /\ pc' = "sleep"
    /\ UNCHANGED <<memVars, exit_code, reason, trainerVars, pending, stale>>

NewEvalAlways == TRUE
NewEval == Latest.step # last_reward_step

RewardSeenBefore ==
    /\ pc = "reward" /\ Latest.step > 0
    /\ ~NewBest /\ ~NewEval
    /\ pc' = "sleep"
    /\ UNCHANGED <<memVars, rewardVars, exit_code, reason, trainerVars, pending, stale>>

RewardFlat ==
    /\ pc = "reward" /\ Latest.step > 0
    /\ ~NewBest /\ NewEval
    /\ plateau_count' = plateau_count + 1
    /\ last_reward_step' = Latest.step
    /\ IF plateau_count' >= Patience
       THEN pc' = "terminate" /\ reason' = "plateau"
       ELSE pc' = "sleep" /\ reason' = reason
    /\ UNCHANGED <<memVars, best_reward, best_from, exit_code, trainerVars, pending, stale>>

Sleep ==
    /\ pc = "sleep"
    /\ \E d \in Cycles :
          /\ mem_window' = [i \in 1 .. Len(mem_window) |->
                               [mem_window[i] EXCEPT !.age = @ + d]]
          /\ elapsed' = Min({Window, elapsed + d})
    /\ pc' = "poll"
    /\ UNCHANGED <<rewardVars, exit_code, reason, trainerVars, pending, stale>>

LoopEnds ==
    /\ pc = "poll" /\ Exited
    /\ pc' = "finish"
    /\ Forget
    /\ UNCHANGED <<exit_code, reason, trainerVars, pending, stale>>

(* "trainer exited on its own": taken after an early stop too.             *)
FinishKeepingCode ==
    /\ pc = "finish"
    /\ exit_code' = exit_code
    /\ pc' = "returned"
    /\ UNCHANGED <<memVars, rewardVars, reason, trainerVars, pending, stale>>
Finish ==
    /\ pc = "finish"
    /\ exit_code' = IF Exited /\ exit_code = 0 THEN returncode ELSE exit_code
    /\ pc' = "returned"
    /\ UNCHANGED <<memVars, rewardVars, reason, trainerVars, pending, stale>>

---------------------------------------------------------------------------
(* _terminate: SIGTERM, a grace period, SIGKILL.  What follows it depends  *)
(* on the caller.                                                          *)

Terminated ==
    /\ exit_code' = CASE reason = "leak"      -> 2
                      [] reason = "plateau"   -> 0
                      [] reason = "interrupt" -> 130
    /\ pc' = IF reason = "interrupt" THEN "returned" ELSE "finish"
    /\ UNCHANGED <<memVars, rewardVars, reason, trainerVars, pending, stale>>

TrainerGone ==
    /\ pc \in {"terminate", "grace", "killing"} /\ Exited
    /\ Terminated

SendTerm ==
    /\ pc = "terminate" /\ ~Exited
    /\ pending' = pending \cup {"TERM"}
    /\ pc' = "grace"
    /\ UNCHANGED <<memVars, rewardVars, exit_code, reason, trainerVars, stale>>

GraceExpiresWaiting ==
    /\ pc = "grace" /\ ~Exited
    /\ pc' = "killing"
    /\ UNCHANGED <<memVars, rewardVars, exit_code, reason, trainerVars, pending, stale>>
GraceExpires ==
    /\ pc = "grace" /\ ~Exited
    /\ pending' = pending \cup {"KILL"}
    /\ pc' = "killing"
    /\ UNCHANGED <<memVars, rewardVars, exit_code, reason, trainerVars, stale>>

---------------------------------------------------------------------------
(* KeyboardInterrupt, and any other exception.                             *)

Handling == reason = "interrupt"

Interrupt ==
    /\ pc \notin {"returned", "raised"} /\ ~Handling
    /\ pending' = IF Exited THEN pending ELSE pending \cup {"INT"}
    /\ reason' = "interrupt"
    /\ pc' = "interrupted"
    /\ Forget
    /\ UNCHANGED <<exit_code, trainerVars, stale>>

InterruptedExit ==
    /\ pc = "interrupted" /\ Exited
    /\ exit_code' = 130
    /\ pc' = "returned"
    /\ UNCHANGED <<memVars, rewardVars, reason, trainerVars, pending, stale>>

InterruptedTimeout ==
    /\ pc = "interrupted" /\ ~Exited
    /\ pc' = "terminate"
    /\ UNCHANGED <<memVars, rewardVars, exit_code, reason, trainerVars, pending, stale>>

(* An interrupt inside the handler, or an error in the loop (an event file *)
(* that disappears, a status file or a snapshot that cannot be written),   *)
(* leaves main() through finally, which only writes the status.            *)
Raise ==
    /\ \/ Handling /\ pc \notin {"returned", "raised"}
       \/ pc \in {"poll", "reward", "sleep"}
       \/ pc = "terminate" /\ reason = "leak"
    /\ pc' = "raised"
    /\ Forget
    /\ UNCHANGED <<exit_code, reason, trainerVars, pending, stale>>

---------------------------------------------------------------------------
(* The trainer: it has no signal handlers until the model is built, then a *)
(* handler that saves and exits.  learn() opens the event file.            *)

Exit(code) == trainer' = "exited" /\ returncode' = code

TrainerReady ==
    /\ trainer = "starting" /\ pending = {}
    /\ trainer' = "training"
    /\ UNCHANGED <<pc, memVars, rewardVars, exit_code, reason, returncode, saved,
                   own, pending, stale>>

Learn ==
    /\ trainer = "training" /\ own = NoFile
    /\ own' = [step |-> 0, reward |-> None]
    /\ UNCHANGED <<pc, memVars, rewardVars, exit_code, reason, trainer, returncode,
                   saved, pending, stale>>

Evaluate ==
    /\ trainer = "training" /\ own.step >= 0 /\ own.step < MaxEvals
    /\ \E r \in Rewards : own' = [step |-> own.step + 1, reward |-> r]
    /\ UNCHANGED <<pc, memVars, rewardVars, exit_code, reason, trainer, returncode,
                   saved, pending, stale>>

(* The save after learn() is the one the handler makes, and as             *)
(* interruptible.                                                          *)
Learned ==
    /\ trainer = "training" /\ own.step >= 0
    /\ trainer' = "saving"
    /\ UNCHANGED <<pc, memVars, rewardVars, exit_code, reason, returncode, saved,
                   own, pending, stale>>

(* An exception, while a save is under way too.                            *)
Crash ==
    /\ ~Exited
    /\ saved' = IF trainer \in {"saving", "resaving"} THEN "partial" ELSE saved
    /\ Exit(1)
    /\ UNCHANGED <<pc, memVars, rewardVars, exit_code, reason, own, pending, stale>>

DefaultSignal ==
    /\ trainer = "starting"
    /\ \E s \in pending \ {"KILL"} :
          /\ Exit(IF s = "TERM" THEN -15 ELSE -2)
          /\ pending' = pending \ {s}
    /\ UNCHANGED <<pc, memVars, rewardVars, exit_code, reason, saved, own, stale>>

(* _save_on_signal.  A signal during a save runs it inside that save, on   *)
(* the same files; its exit(0) then unwinds the outer save, which closes   *)
(* its own archive over what the inner one wrote.  "resaving" lasts until  *)
(* that is over, and what it leaves may be whole or not.                   *)
SaveOnSignal ==
    /\ trainer \in {"training", "saving", "resaving"}
    /\ \E s \in pending \ {"KILL"} : pending' = pending \ {s}
    /\ trainer' = IF trainer = "training" THEN "saving" ELSE "resaving"
    /\ UNCHANGED <<pc, memVars, rewardVars, exit_code, reason, returncode, saved,
                   own, stale>>

Saved ==
    /\ \/ trainer = "saving" /\ saved' = "whole"
       \/ trainer = "resaving" /\ saved' \in {"whole", "overlapped"}
    /\ Exit(0)
    /\ UNCHANGED <<pc, memVars, rewardVars, exit_code, reason, own, pending, stale>>

Killed ==
    /\ ~Exited /\ "KILL" \in pending
    /\ saved' = IF trainer \in {"saving", "resaving"} THEN "partial" ELSE saved
    /\ Exit(-9)
    /\ UNCHANGED <<pc, memVars, rewardVars, exit_code, reason, own, pending, stale>>

---------------------------------------------------------------------------
Main ==
    \/ PollMemory \/ LoopEnds \/ Sleep \/ Finish
    \/ RewardUnknown \/ RewardImproves \/ RewardSeenBefore \/ RewardFlat
    \/ TrainerGone \/ SendTerm \/ GraceExpires
    \/ InterruptedExit \/ InterruptedTimeout

Trainer ==
    \/ TrainerReady \/ Learn \/ Evaluate \/ Learned \/ Crash
    \/ DefaultSignal \/ SaveOnSignal \/ Saved

(* What a trainer does once main() has left it behind is not followed.     *)
Next ==
    \/ Main \/ Interrupt \/ Raise
    \/ pc # "raised" /\ (Trainer \/ Killed)

Spec == Init /\ [][Next]_vars

(* main() runs on and a SIGKILL takes effect.  Nothing is assumed of the   *)
(* trainer, which may hang in any phase.                                   *)
FairSpec == Spec /\ WF_vars(Main) /\ WF_vars(Killed)

---------------------------------------------------------------------------
(* "Repeated polls between evals must not inflate plateau_count": it never *)
(* exceeds the number of evaluations this trainer has reported.            *)
EvalCountedOnce == plateau_count =< Max({0, own.step})

(* When the supervisor returns the trainer is gone, and it returns success *)
(* only if the trainer came to the end of a save, after an early stop too: *)
(* never with none and never with one that a crash or SIGKILL cut short.   *)
(* Nothing is said of the file when two saves overlapped.                  *)
ReturnIsTruthful ==
    pc = "returned" => Exited /\ (exit_code = 0 => saved \in {"whole", "overlapped"})

(* A leak verdict rests on a window that has filled ("a fast-ramping       *)
(* warmup would trip the detector") and on growth inside that window.      *)
LeakVerdictSound ==
    (reason = "leak" /\ pc # "raised") =>
        /\ elapsed = Window
        /\ Growth(mem_window) > Threshold
        /\ \A s \in ToSet(mem_window) : s.age =< Window

(* What makes the three above inductive.  Ages fall along the window, so   *)
(* that dropping samples from its front drops every sample that is too     *)
(* old, and none is older than the time supervised.                        *)
Ages ==
    /\ \A i, j \in 1 .. Len(mem_window) :
          i =< j => mem_window[i].age >= mem_window[j].age
    /\ elapsed < Window =>
          \A i \in 1 .. Len(mem_window) : mem_window[i].age =< elapsed

(* An earlier run's file is never counted against this trainer; and while  *)
(* its newest evaluation has not been counted there is room for one more.  *)
Counting ==
    /\ trainer = "starting" => own.step = None
    /\ own.step = None =>
          /\ plateau_count = 0
          /\ best_reward # None => last_reward_step = stale.step
    /\ own.step >= 0 => plateau_count =< own.step
    /\ (own.step > 0 /\ last_reward_step # own.step) => plateau_count < own.step

(* A verdict ends the polling, main() gets to its end only past a trainer  *)
(* that is gone, and a trainer that exits with 0 has finished a save.      *)
Phases ==
    /\ pc \in {"poll", "reward", "sleep"} => reason = "none"
    /\ pc = "interrupted" => reason = "interrupt"
    /\ pc \in {"terminate", "grace", "killing"} => reason # "none"
    /\ pc \in {"finish", "returned"} => Exited
    /\ (Exited /\ returncode = 0) => saved \in {"whole", "overlapped"}

File == [step : Nat \cup {None}, reward : Nat \cup {None}]
TypeOK ==
    /\ pc \in {"poll", "reward", "sleep", "terminate", "grace", "killing",
               "interrupted", "finish", "returned", "raised"}
    /\ mem_window \in Seq([age : Nat, rss : Nat]) /\ elapsed \in 0 .. Window
    /\ best_reward \in Nat \cup {None} /\ last_reward_step \in Nat \cup {None}
    /\ plateau_count \in Nat
    /\ best_from \in {"none", "stale", "own"}
    /\ exit_code \in {-15, -9, -2, 0, 1, 2, 130}
    /\ reason \in {"none", "leak", "plateau", "interrupt"}
    /\ trainer \in {"starting", "training", "saving", "resaving", "exited"}
    /\ returncode \in {None, -15, -9, -2, 0, 1} /\ (Exited => returncode # None)
    /\ pending \subseteq {"INT", "TERM", "KILL"}
    /\ saved \in {"no", "partial", "whole", "overlapped"}
    /\ own \in File /\ stale \in File

Inv ==
    TypeOK /\ Ages /\ Counting /\ Phases /\ ReturnIsTruthful /\ LeakVerdictSound

(* Once the supervisor has decided to stop the trainer it ends, even when  *)
(* the trainer ignores SIGTERM or hangs while saving.                      *)
StopEnds == (reason # "none") ~> (pc \in {"returned", "raised"})

---------------------------------------------------------------------------
(* The module's docstring: "If RSS grows by more than 500 MB across a      *)
(* rolling 10-minute window we treat that as a leak ... and kill".         *)
LeakIsKilled ==
    (pc = "sleep" /\ elapsed = Window) => Growth(mem_window) =< Threshold

(* The docstring's early stop: the reward "fails to strictly improve over  *)
(* its previous best" for that many intervals, of the trainer watched.     *)
EarlyStopIsPlateau == reason = "plateau" => best_from = "own"
===========================================================================
