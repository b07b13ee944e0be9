---------------------------- MODULE MirrorRunnable ----------------------------
(***************************************************************************)
(* The runnable of the manager that decides when the mirror sweeps.        *)
(* Triggers come from the REST API, from the secret controller when it     *)
(* sees copies diverge and from a watch on agent pods; they go through a   *)
(* bounded channel that drops what does not fit.  One goroutine, the loop, *)
(* takes them out, collects them in pendingEvents and (re)arms a debounce  *)
(* timer; the timer's callback runs in a goroutine of its own, sweeps and  *)
(* clears pendingEvents.  A ticker makes the loop itself sweep when the    *)
(* last successful sweep is too old.  What a sweep does is in SecretSync.  *)
(*                                                                         *)
(* pendingEvents is shared by the loop and the callbacks without a lock:   *)
(* the loop's append is a read step and a write step here, and a callback  *)
(* reads it once and clears it after its sweep.  lastSyncTime is shared    *)
(* the same way; only how old it is matters.  A torn read of the slice     *)
(* header ends the process: one of the cases of Crash.                     *)
(*                                                                         *)
(* A callback is named after the trigger whose receipt armed its timer.    *)
(*                                                                         *)
(* Mishaps: a sweep fails, agents go away, the context is cancelled, the   *)
(* manager crashes.                                                        *)
(***************************************************************************)
EXTENDS Mishaps, Sequences, FiniteSets, Functions

CONSTANTS
  Triggers,    \* bound: the triggers that can be under way at a time
  Forced,      \* the triggers raised with force=true
  NoTrigger,   \* no trigger: an idle timer, or the loop's own sweep
  ChanCap      \* capacity of mirrorTrigger (10 in the code)

ASSUME MirrorAssumption ==
  /\ Forced \subseteq Triggers
  /\ NoTrigger \notin Triggers
  /\ ChanCap \in Nat \ {0}
  /\ MaxMishaps \in Nat

VARIABLES
  phase,      \* where the goroutine that runs Start is
  cancelled,  \* the context of the runnable has been cancelled
  channel,    \* mirrorTrigger
  taken,      \* the trigger the loop has received and not yet appended
  seen,       \* what the loop read of pendingEvents for that append
  pending,    \* pendingEvents
  timer,      \* the trigger that armed the debounce timer, NoTrigger if none
  callback,   \* callback[r]: how far the callback armed by r is
  ticked,     \* the ticker's channel holds a tick
  lastSync,   \* how long ago the last successful sweep was
  covers,     \* covers[x]: the triggers owed when the sweep of x began
  owed,       \* triggers raised that no successful sweep begun since has served
  agentsUp    \* some agent can be reached

queueVars == <<channel, taken, seen, pending, timer>>
mirrorVars ==
  <<phase, cancelled, channel, taken, seen, pending, timer, callback, ticked,
    lastSync, covers, owed, agentsUp, mishaps>>

Sweepers == Triggers \cup {NoTrigger}
Phases == {"down", "waiting", "select", "received", "sweeping", "stopped"}
Steps == {"free", "fired", "sweeping", "clearing"}

(* recent: under the 30 s of the skip; due: over the periodic interval. *)
SyncAges == {"recent", "aged", "due"}

(* Types; no trigger is queued twice. *)
MirrorTypeOK ==
  /\ phase \in Phases
  /\ cancelled \in BOOLEAN
  /\ channel \in Seq(Triggers) /\ Len(channel) <= ChanCap
  /\ taken \in Sweepers
  /\ seen \in Seq(Triggers)
  /\ pending \in Seq(Triggers)
  /\ timer \in Sweepers
  /\ callback \in [Triggers -> Steps]
  /\ ticked \in BOOLEAN
  /\ lastSync \in SyncAges
  /\ covers \in [Sweepers -> SUBSET Triggers]
  /\ owed \in SUBSET Triggers
  /\ agentsUp \in BOOLEAN
  /\ mishaps \in 0..MaxMishaps

(* A manager that has not started yet; nothing was asked of it. *)
MirrorInit ==
  /\ phase = "down" /\ cancelled = FALSE
  /\ channel = <<>> /\ taken = NoTrigger /\ seen = <<>>
  /\ pending = <<>> /\ timer = NoTrigger
  /\ callback = [r \in Triggers |-> "free"]
  /\ ticked = FALSE /\ lastSync = "due"
  /\ covers = [x \in Sweepers |-> {}]
  /\ owed = {} /\ agentsUp \in BOOLEAN
  /\ mishaps = 0

ActiveCallbacks == {r \in Triggers : callback[r] # "free"}

-----------------------------------------------------------------------------
(* Raising a trigger.                                                      *)

(* The runnable has registered itself with trigger.Set; before that the    *)
(* API answers 503 and the controller's triggerMirror does nothing.        *)
Registered == phase # "down"

Idle(r) ==
  /\ r \notin owed /\ r # taken /\ r # timer /\ callback[r] = "free"
  /\ r \notin Range(channel) \cup Range(seen) \cup Range(pending)

(* Mutant of TriggerMirror: one event more than the channel holds. *)
TriggerMirrorOneMore(r) ==
  /\ channel' = IF Len(channel) <= ChanCap THEN Append(channel, r) ELSE channel
  /\ owed' = owed \cup {r}

(* TriggerMirror: send without blocking, drop the event if the channel is  *)
(* full.  The caller is told nothing either way.                           *)
TriggerMirror(r) ==
  /\ channel' = IF Len(channel) < ChanCap THEN Append(channel, r) ELSE channel
  /\ owed' = owed \cup {r}

(* POST mirror/sync, with either value of force. *)
HandleMirrorSync(r) ==
  /\ Registered /\ Idle(r)
  /\ TriggerMirror(r)
  /\ UNCHANGED <<phase, cancelled, taken, seen, pending, timer, callback, ticked,
                 lastSync, covers, agentsUp, mishaps>>

(* Reconcile of an HSMSecret resolves diverging copies. *)
ControllerDivergence(r) == r \in Forced /\ HandleMirrorSync(r)

(* An agent pod becomes ready; the watcher asks for an unforced sweep. *)
AgentReady(r) ==
  /\ ~agentsUp /\ agentsUp' = TRUE
  /\ r \notin Forced
  /\ IF Registered /\ Idle(r)
       THEN TriggerMirror(r)
       ELSE UNCHANGED <<channel, owed>>
  /\ UNCHANGED <<phase, cancelled, taken, seen, pending, timer, callback, ticked,
                 lastSync, covers, mishaps>>

AgentsGone ==
  /\ agentsUp /\ agentsUp' = FALSE
  /\ Mishap
  /\ UNCHANGED <<phase, cancelled, queueVars, callback, ticked, lastSync, covers, owed>>

-----------------------------------------------------------------------------
(* The process: start, exit, crash.                                        *)

(* Everything the process holds is lost; what callers are owed is not. *)
ProcessGone ==
  /\ phase' = "down" /\ cancelled' = FALSE
  /\ channel' = <<>> /\ taken' = NoTrigger /\ seen' = <<>>
  /\ pending' = <<>> /\ timer' = NoTrigger
  /\ callback' = [r \in Triggers |-> "free"]
  /\ ticked' = FALSE /\ lastSync' = "due"
  /\ covers' = [x \in Sweepers |-> {}]
  /\ UNCHANGED <<owed, agentsUp>>

(* Start registers the trigger and waits for agents. *)
Start ==
  /\ phase = "down" /\ phase' = "waiting"
  /\ UNCHANGED <<cancelled, queueVars, callback, ticked, lastSync, covers, owed,
                 agentsUp, mishaps>>

(* WaitForAgentsReady reaches an agent; the loop begins. *)
AgentsAreReady ==
  /\ phase = "waiting" /\ agentsUp /\ phase' = "select"
  /\ UNCHANGED <<cancelled, queueVars, callback, ticked, lastSync, covers, owed,
                 agentsUp, mishaps>>

(* WaitForAgentsReady runs out of time or the context is cancelled: it     *)
(* returns ctx.Err(), Start returns an error and the manager exits.        *)
WaitFails ==
  /\ phase = "waiting" /\ (~agentsUp \/ cancelled)
  /\ ProcessGone
  /\ UNCHANGED mishaps

(* SIGTERM or a lost lease. *)
Cancel ==
  /\ phase \in {"waiting", "select", "received", "sweeping"} /\ ~cancelled
  /\ cancelled' = TRUE
  /\ Mishap
  /\ UNCHANGED <<phase, queueVars, callback, ticked, lastSync, covers, owed, agentsUp>>

(* case <-ctx.Done(): stop the timer and return. *)
StopLoop ==
  /\ phase = "select" /\ cancelled
  /\ phase' = "stopped" /\ timer' = NoTrigger
  /\ UNCHANGED <<cancelled, channel, taken, seen, pending, callback, ticked, lastSync,
                 covers, owed, agentsUp, mishaps>>

(* The manager returns once its runnables have; callbacks are not waited for. *)
Exit ==
  /\ phase = "stopped"
  /\ ProcessGone
  /\ UNCHANGED mishaps

Crash ==
  /\ phase # "down"
  /\ ProcessGone
  /\ Mishap

-----------------------------------------------------------------------------
(* A sweep, by the loop or by a callback.                                  *)

SweepBegins(x) == covers' = [covers EXCEPT ![x] = owed]

(* performMirrorSync: only a sweep without error moves lastSyncTime. *)
SweepEnds(x) ==
  /\ \/ /\ agentsUp
        /\ lastSync' = "recent"
        /\ owed' = owed \ covers[x]
        /\ UNCHANGED mishaps
     \/ /\ ~agentsUp
        /\ UNCHANGED <<lastSync, owed, mishaps>>
     \/ /\ Mishap
        /\ UNCHANGED <<lastSync, owed>>
  /\ covers' = [covers EXCEPT ![x] = {}]

-----------------------------------------------------------------------------
(* The loop of Start.  Several ready cases of the select are chosen among  *)
(* at random.                                                              *)

(* case event := <-mirrorTrigger, and the read of pendingEvents. *)
Receive ==
  /\ phase = "select" /\ channel # <<>>
  /\ taken' = Head(channel) /\ channel' = Tail(channel)
  /\ seen' = pending
  /\ phase' = "received"
  /\ UNCHANGED <<cancelled, pending, timer, callback, ticked, lastSync, covers, owed,
                 agentsUp, mishaps>>

(* Mutant of Arm: a running timer is stopped and not armed again. *)
ArmOrStop ==
  /\ phase = "received"
  /\ pending' = Append(seen, taken)
  /\ timer' = IF timer # NoTrigger THEN NoTrigger ELSE taken
  /\ taken' = NoTrigger /\ seen' = <<>>
  /\ phase' = "select"
  /\ UNCHANGED <<cancelled, channel, callback, ticked, lastSync, covers, owed,
                 agentsUp, mishaps>>

(* The write of pendingEvents; stop the old timer and arm a new one. *)
Arm ==
  /\ phase = "received"
  /\ pending' = Append(seen, taken)
  /\ timer' = taken
  /\ taken' = NoTrigger /\ seen' = <<>>
  /\ phase' = "select"
  /\ UNCHANGED <<cancelled, channel, callback, ticked, lastSync, covers, owed,
                 agentsUp, mishaps>>

(* The periodic ticker fires; a second tick is dropped. *)
TickerFires ==
  /\ phase \in {"select", "received", "sweeping"} /\ ~ticked
  /\ ticked' = TRUE
  /\ UNCHANGED <<phase, cancelled, queueVars, callback, lastSync, covers, owed,
                 agentsUp, mishaps>>

(* Mutant of PeriodicTick: without pending events there is nothing to do. *)
PeriodicTickIfPending ==
  /\ phase = "select" /\ ticked
  /\ ticked' = FALSE
  /\ IF lastSync = "due" /\ pending # <<>>
       THEN phase' = "sweeping" /\ SweepBegins(NoTrigger)
       ELSE UNCHANGED <<phase, covers>>
  /\ UNCHANGED <<cancelled, queueVars, callback, lastSync, owed, agentsUp, mishaps>>

(* case <-periodicTicker.C: sweep if the last sweep is old enough. *)
PeriodicTick ==
  /\ phase = "select" /\ ticked
  /\ ticked' = FALSE
  /\ IF lastSync = "due"
       THEN phase' = "sweeping" /\ SweepBegins(NoTrigger)
       ELSE UNCHANGED <<phase, covers>>
  /\ UNCHANGED <<cancelled, queueVars, callback, lastSync, owed, agentsUp, mishaps>>

PeriodicSweepEnds ==
  /\ phase = "sweeping" /\ phase' = "select"
  /\ SweepEnds(NoTrigger)
  /\ UNCHANGED <<cancelled, queueVars, callback, ticked, agentsUp>>

-----------------------------------------------------------------------------
(* The debounce timer and its callbacks.                                   *)

TimerFires ==
  /\ timer # NoTrigger
  /\ callback' = [callback EXCEPT ![timer] = "fired"]
  /\ timer' = NoTrigger
  /\ UNCHANGED <<phase, cancelled, channel, taken, seen, pending, ticked, lastSync,
                 covers, owed, agentsUp, mishaps>>

(* The optimization check of processPendingEvents. *)
SkipSync(events) ==
  \/ events = <<>>
  \/ lastSync = "recent" /\ Range(events) \cap Forced = {}

(* processPendingEvents up to the sweep. *)
ProcessPendingEvents(r) ==
  /\ callback[r] = "fired"
  /\ IF SkipSync(pending)
       THEN callback' = [callback EXCEPT ![r] = "clearing"] /\ UNCHANGED covers
       ELSE callback' = [callback EXCEPT ![r] = "sweeping"] /\ SweepBegins(r)
  /\ UNCHANGED <<phase, cancelled, queueVars, ticked, lastSync, owed, agentsUp, mishaps>>

CallbackSweepEnds(r) ==
  /\ callback[r] = "sweeping"
  /\ callback' = [callback EXCEPT ![r] = "clearing"]
  /\ SweepEnds(r)
  /\ UNCHANGED <<phase, cancelled, queueVars, ticked, agentsUp>>

(* pendingEvents = nil, whatever has been appended since it was read. *)
CallbackClears(r) ==
  /\ callback[r] = "clearing"
  /\ callback' = [callback EXCEPT ![r] = "free"]
  /\ pending' = <<>>
  /\ UNCHANGED <<phase, cancelled, channel, taken, seen, timer, ticked, lastSync,
                 covers, owed, agentsUp, mishaps>>

(* The last successful sweep grows older. *)
TimePasses ==
  /\ phase # "down" /\ lastSync # "due"
  /\ lastSync' = IF lastSync = "recent" THEN "aged" ELSE "due"
  /\ UNCHANGED <<phase, cancelled, queueVars, callback, ticked, covers, owed,
                 agentsUp, mishaps>>

-----------------------------------------------------------------------------
MirrorNext ==
  \/ \E r \in Triggers :
       \/ HandleMirrorSync(r) \/ ControllerDivergence(r) \/ AgentReady(r)
       \/ ProcessPendingEvents(r) \/ CallbackSweepEnds(r) \/ CallbackClears(r)
  \/ AgentsGone
  \/ Start \/ AgentsAreReady \/ WaitFails \/ Cancel \/ StopLoop \/ Exit \/ Crash
  \/ Receive \/ Arm \/ TickerFires \/ PeriodicTick \/ PeriodicSweepEnds
  \/ TimerFires \/ TimePasses

(* Goroutines that can run do, sweeps end within their 5 minutes, timers   *)
(* fire, the kubelet restarts the manager and agents come back.  select    *)
(* picks a ready case at random, so a case that is ready again and again   *)
(* is taken in the end: strong fairness for the ticker's case.             *)
MirrorFairness ==
  /\ WF_mirrorVars(\E r \in Triggers : AgentReady(r))
  /\ WF_mirrorVars(Start \/ AgentsAreReady \/ Exit)
  /\ WF_mirrorVars(Arm) /\ WF_mirrorVars(Receive \/ StopLoop)
  /\ WF_mirrorVars(TickerFires) /\ SF_mirrorVars(PeriodicTick)
  /\ WF_mirrorVars(PeriodicSweepEnds)
  /\ WF_mirrorVars(TimerFires) /\ WF_mirrorVars(TimePasses)
  /\ \A r \in Triggers :
       /\ WF_mirrorVars(ProcessPendingEvents(r))
       /\ WF_mirrorVars(CallbackSweepEnds(r))
       /\ WF_mirrorVars(CallbackClears(r))

MirrorSpec == MirrorInit /\ [][MirrorNext]_mirrorVars /\ MirrorFairness

-----------------------------------------------------------------------------
(* Events that wait in pendingEvents while the loop runs are looked after: *)
(* the debounce timer runs or a callback has yet to clear them.  The loop  *)
(* and the callbacks write the list without a lock, and an event left      *)
(* without a timer would only go with the next trigger.                    *)
NoStrandedEvents ==
  phase # "stopped" /\ pending # <<>> => timer # NoTrigger \/ ActiveCallbacks # {}

(* Every trigger is followed by a successful sweep that began after it:    *)
(* also one that the full channel dropped, that a callback cleared away    *)
(* unread, that was skipped because of a recent sweep, or that died with   *)
(* the manager.  The periodic sweep of the loop is what makes it so.       *)
EveryTriggerIsSwept ==
  \A r \in Triggers : r \in owed ~> r \notin owed

(* Where a trigger that was accepted and not yet served still is. *)
UnderWay ==
  Range(channel) \cup {taken} \cup Range(seen) \cup Range(pending)
    \cup UNION {covers[x] : x \in Sweepers}

(* Does not hold: a forced trigger leads to a sweep of its own accord, so  *)
(* that, while nothing has failed and the channel cannot fill up, it waits *)
(* in the queue or is covered by a sweep that is running (trigger.go on    *)
(* force=true).  A callback clears the events that came during its sweep.  *)
ForcedTriggersReachASweep ==
  mishaps = 0 /\ phase # "down" /\ Cardinality(Triggers) <= ChanCap
    => owed \cap Forced \subseteq UnderWay
=============================================================================
