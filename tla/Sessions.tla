------------------------------- MODULE Sessions -------------------------------
(***************************************************************************)
(* The browser sessions of a gateway (packages/gateway/src/session/        *)
(* manager.ts) and the containers they run in (dockerhost.ts): creation,   *)
(* expiry, liveness, destruction and shutdown, each a chain of awaited     *)
(* calls to the container runtime that the others may overtake.            *)
(*                                                                         *)
(* A container is a number, in the order of their launches.  A persistent  *)
(* session's name is its id; an ephemeral one has a name nobody else uses. *)
(* Time is what may expire at any moment.  The runtime performs a removal  *)
(* before its caller hears of it.                                          *)
(***************************************************************************)
EXTENDS Integers, FiniteSets

CONSTANTS Name,           \* ids of sessions
          MaxLaunches,    \* bound on the launches
          LivenessLimit,  \* livenessFailures
          MaxFaults       \* bound on the calls that fail and the browsers that die

ASSUME SessionConstants ==
  /\ MaxLaunches \in Nat \ {0} /\ LivenessLimit \in Nat \ {0} /\ MaxFaults \in Nat

VARIABLES
  box,      \* container -> [state, name]
  launch,   \* container -> where its launch() is
  records,  \* name -> the container of its record, or None
  session,  \* container -> its record: [status, failures, expired, cleanup, doomed]
  beating,  \* containers whose part of the liveness round is not over
  reaping,  \* containers the reaper waits for
  closed,   \* the manager is closed
  usurped,  \* (history) containers whose record another session's destroy() deleted
  refused,  \* (history) containers whose removal was refused
  faults    \* failures so far

vars == <<box, launch, records, session, beating, reaping, closed, usurped, refused, faults>>

Container == 1..MaxLaunches
None == 0

Init ==
  /\ box = [c \in Container |-> [state |-> "none", name |-> None]]
  /\ launch = [c \in Container |-> "none"]
  /\ records = [n \in Name |-> None]
  /\ session = [c \in Container |->
                  [status |-> "none",     \* "active", "destroying", "dead"
                   failures |-> 0,        \* consecutiveFailures
                   expired |-> FALSE,     \* expiresAt has passed
                   cleanup |-> "none",    \* where the cleanup promise is
                   doomed |-> FALSE]]     \* somebody deletes the record after the cleanup
  /\ beating = {} /\ reaping = {}
  /\ closed = FALSE
  /\ usurped = {} /\ refused = {}
  /\ faults = 0

Fault == faults < MaxFaults /\ faults' = faults + 1
Calm  == UNCHANGED faults

Recorded == {records[n] : n \in Name} \ {None}
Exists(c)  == box[c].state \in {"created", "running", "exited"}

Becomes(c, s) == box' = [box EXCEPT ![c].state = s]
At(c, s)      == launch' = [launch EXCEPT ![c] = s]

------------------------------------------------------------------------------
(* create() and launch(). *)

\* create(), as far as host.launch()
Create(n) ==
  /\ ~closed /\ records[n] = None
  /\ \E c \in Container :
       /\ launch[c] = "none" /\ \A d \in Container : d < c => launch[d] # "none"
       /\ At(c, "creating")
       /\ box' = [box EXCEPT ![c].name = n]
  /\ UNCHANGED <<records, session, beating, reaping, closed, usurped, refused>> /\ Calm

\* The runtime refuses a second container of the same name.
Conflicts(c) == \E d \in Container \ {c} : Exists(d) /\ box[d].name = box[c].name

\* docker.createContainer()
MakeContainer(c) ==
  /\ launch[c] = "creating"
  /\ IF Conflicts(c) THEN At(c, "over") /\ UNCHANGED box
                     ELSE At(c, "starting") /\ Becomes(c, "created")
  /\ UNCHANGED <<records, session, beating, reaping, closed, usurped, refused>> /\ Calm

StartContainer(c) ==
  /\ launch[c] = "starting" /\ box[c].state = "created"
  /\ At(c, "connecting") /\ Becomes(c, "running")
  /\ UNCHANGED <<records, session, beating, reaping, closed, usurped, refused>> /\ Calm

\* CDP is there, connect() succeeds and create() records the session.
Connected(c) ==
  /\ launch[c] = "connecting" /\ box[c].state = "running"
  /\ At(c, "over")
  /\ records' = [records EXCEPT ![box[c].name] = c]
  /\ session' = [session EXCEPT ![c].status = "active"]
  /\ UNCHANGED <<box, beating, reaping, closed, usurped, refused>> /\ Calm

\* Mutant: the catch of launch() throws without removing the container.
LaunchFails_JustThrows(c) ==
  /\ launch[c] \in {"starting", "connecting"}
  /\ IF box[c].state = "exited" THEN Calm ELSE Fault
  /\ At(c, "over")
  /\ UNCHANGED <<box, records, session, beating, reaping, closed, usurped, refused>>

\* Any step of the launch fails: the deadline for CDP, a refused call, the agent link.
LaunchFails(c) ==
  /\ launch[c] \in {"starting", "connecting"}
  /\ IF box[c].state = "exited" THEN Calm ELSE Fault
  /\ At(c, "killing")
  /\ UNCHANGED <<box, records, session, beating, reaping, closed, usurped, refused>>

\* forceRemove(), emergencyRemove(): kill ...
KillLaunched(c) ==
  /\ launch[c] = "killing"
  /\ At(c, "removing")
  /\ IF box[c].state = "running" THEN Becomes(c, "exited") ELSE UNCHANGED box
  /\ UNCHANGED <<records, session, beating, reaping, closed, usurped, refused>> /\ Calm

\* ... and remove, whose refusal nobody hears of.
RemoveLaunched(c) ==
  /\ launch[c] = "removing"
  /\ At(c, "over")
  /\ \/ Becomes(c, "gone") /\ UNCHANGED refused /\ Calm
     \/ refused' = refused \cup {c} /\ UNCHANGED box /\ Fault
  /\ UNCHANGED <<records, session, beating, reaping, closed, usurped>>

------------------------------------------------------------------------------
(* cleanup(). *)

\* cleanup() is entered once, whoever asks.
Begun(s) == IF s.cleanup = "none" THEN [s EXCEPT !.cleanup = "closing"] ELSE s

\* destroy(); those who come when the cleanup has ended have its result at once.
Destroyed(s) ==
  LET d == IF s.status = "dead" THEN s ELSE [s EXCEPT !.status = "destroying"] IN
  [Begun(d) EXCEPT !.doomed = (s.cleanup # "failed")]

Cleanup(c, from, to) ==
  /\ session[c].cleanup = from
  /\ session' = [session EXCEPT ![c].cleanup = to]

(* hosted.close() within its grace period, and isRunning(): only a browser that closed and
   a container that stopped need no kill. *)
CloseGracefully(c) ==
  /\ Cleanup(c, "closing", "removing")
  /\ Becomes(c, "exited")
  /\ UNCHANGED <<launch, records, beating, reaping, closed, usurped, refused>> /\ Calm

CloseInVain(c) ==
  /\ Cleanup(c, "closing", "killing")
  /\ UNCHANGED <<box, launch, records, beating, reaping, closed, usurped, refused>> /\ Calm

Kill(c) ==
  /\ Cleanup(c, "killing", "removing")
  /\ Becomes(c, "exited")
  /\ UNCHANGED <<launch, records, beating, reaping, closed, usurped, refused>> /\ Calm

RemoveContainer(c) ==
  /\ session[c].cleanup = "removing"
  /\ Becomes(c, "gone")
  /\ Cleanup(c, "removing", "removed")
  /\ UNCHANGED <<launch, records, beating, reaping, closed, usurped, refused>> /\ Calm

\* Mutant: a round that waited for a cleanup does not end.
Over_Stuck(c) == UNCHANGED <<beating, reaping>>

\* Waiters of the cleanup go on: the reaper's and the heartbeat's rounds.
Over(c) == beating' = beating \ {c} /\ reaping' = reaping \ {c}

RemoveRefused(c) ==
  /\ session[c].cleanup = "removing" /\ Fault
  /\ session' = [session EXCEPT ![c].cleanup = "failed", ![c].doomed = FALSE]
  /\ refused' = refused \cup {c}
  /\ Over(c)
  /\ UNCHANGED <<box, launch, records, closed, usurped>>

\* records.delete(id): whichever record has the id.
Deleted(c) ==
  LET n == box[c].name IN
  /\ records' = [records EXCEPT ![n] = None]
  /\ usurped' = IF records[n] \in {None, c} THEN usurped ELSE usurped \cup {records[n]}

\* The runtime has answered: whoever destroys deletes the record; a dead one stays.
CleanedUp(c) ==
  /\ session[c].cleanup = "removed"
  /\ session' = [session EXCEPT ![c].cleanup = "done", ![c].doomed = FALSE]
  /\ Over(c)
  /\ IF session[c].doomed THEN Deleted(c) ELSE UNCHANGED <<records, usurped>>
  /\ UNCHANGED <<box, launch, closed, refused>> /\ Calm

------------------------------------------------------------------------------
(* destroy(), the reaper, liveness and close(). *)

\* Mutant: a cleanup that failed is over too.
Removed_OrFailed(c) == session[c].cleanup \in {"done", "failed"}

\* The cleanup is over: there is nothing to wait for before the record is deleted.
Removed(c) == session[c].cleanup = "done"

Kept(C) == [n \in Name |-> IF records[n] \in C /\ Removed(records[n]) THEN None ELSE records[n]]

\* The records of C are destroyed.
DestroyAll(C) ==
  /\ session' = [c \in Container |->
                   IF c \in C /\ ~Removed(c) THEN Destroyed(session[c]) ELSE session[c]]
  /\ records' = Kept(C)

Destroy(n) ==
  /\ records[n] # None
  /\ DestroyAll({records[n]})
  /\ UNCHANGED <<box, launch, beating, reaping, closed, usurped, refused>> /\ Calm

Expire(c) ==
  /\ c \in Recorded /\ ~session[c].expired
  /\ session' = [session EXCEPT ![c].expired = TRUE]
  /\ UNCHANGED <<box, launch, records, beating, reaping, closed, usurped, refused>> /\ Calm

\* reapExpired(), once the last round is over
Reap ==
  LET C == {c \in Recorded : session[c].expired /\ session[c].status # "destroying"} IN
  /\ ~closed /\ reaping = {} /\ C # {}
  /\ DestroyAll(C)
  /\ reaping' = {c \in C : session[c].cleanup \notin {"done", "failed"}}
  /\ UNCHANGED <<box, launch, beating, closed, usurped, refused>> /\ Calm

\* checkLiveness(), once the last round is over
Beat ==
  LET C == {c \in Recorded : session[c].status = "active"} IN
  /\ ~closed /\ beating = {} /\ C # {}
  /\ beating' = C
  /\ UNCHANGED <<box, launch, records, session, reaping, closed, usurped, refused>> /\ Calm

\* The container runs, CDP answers and the agent pongs.
BeatAnswered(c) ==
  /\ c \in beating /\ session[c].status # "dead"
  /\ box[c].state = "running"
  /\ session' = [session EXCEPT ![c].failures = 0]
  /\ beating' = beating \ {c}
  /\ UNCHANGED <<box, launch, records, reaping, closed, usurped, refused>> /\ Calm

BeatMissed(c) ==
  /\ c \in beating /\ session[c].status # "dead"
  /\ IF box[c].state = "running" THEN Fault ELSE Calm
  /\ LET k == session[c].failures + 1 IN
     IF k < LivenessLimit
     THEN /\ session' = [session EXCEPT ![c].failures = k]
          /\ beating' = beating \ {c}
     ELSE /\ session' = [session EXCEPT ![c] = Begun([@ EXCEPT !.failures = k, !.status = "dead"])]
          /\ beating' = IF session[c].cleanup \in {"done", "failed"} THEN beating \ {c} ELSE beating
  /\ UNCHANGED <<box, launch, records, reaping, closed, usurped, refused>>

\* A browser dies.
Crash(c) ==
  /\ box[c].state = "running" /\ Fault
  /\ Becomes(c, "exited")
  /\ UNCHANGED <<launch, records, session, beating, reaping, closed, usurped, refused>>

\* close(): every record is cleaned up and then deleted
Close ==
  /\ ~closed /\ closed' = TRUE
  /\ session' = [c \in Container |->
                   IF c \in Recorded /\ ~Removed(c)
                   THEN [Begun(session[c]) EXCEPT !.doomed = (session[c].cleanup # "failed")]
                   ELSE session[c]]
  /\ records' = Kept(Recorded)
  /\ UNCHANGED <<box, launch, beating, reaping, usurped, refused>> /\ Calm

------------------------------------------------------------------------------
LaunchStep(c) ==
  MakeContainer(c) \/ StartContainer(c) \/ Connected(c) \/ KillLaunched(c) \/ RemoveLaunched(c)
CleanupStep(c) ==
  CloseGracefully(c) \/ CloseInVain(c) \/ Kill(c) \/ RemoveContainer(c) \/ CleanedUp(c)

Next ==
  \/ Reap \/ Beat \/ Close
  \/ \E n \in Name : Create(n) \/ Destroy(n)
  \/ \E c \in Container : \/ LaunchStep(c) \/ LaunchFails(c) \/ CleanupStep(c) \/ RemoveRefused(c)
                          \/ Expire(c) \/ BeatAnswered(c) \/ BeatMissed(c) \/ Crash(c)

(* The two intervals fire until the manager is closed, the runtime answers a call, and
   a heartbeat ends in an answer or a timeout. *)
Fairness ==
  /\ WF_vars(Reap) /\ WF_vars(Beat)
  /\ \A c \in Container : /\ WF_vars(CleanupStep(c)) /\ WF_vars(LaunchStep(c) \/ LaunchFails(c))
                          /\ WF_vars(BeatAnswered(c) \/ BeatMissed(c))

Spec == Init /\ [][Next]_vars
FairSpec == Spec /\ Fairness

------------------------------------------------------------------------------
(* Properties. *)

TypeOK ==
  /\ box \in [Container -> [state : {"none", "created", "running", "exited", "gone"},
                            name : Name \cup {None}]]
  /\ launch \in [Container -> {"none", "creating", "starting", "connecting", "killing",
                               "removing", "over"}]
  /\ records \in [Name -> Container \cup {None}]
  /\ session \in [Container -> [status : {"none", "active", "destroying", "dead"},
                                failures : 0..LivenessLimit, expired : BOOLEAN, doomed : BOOLEAN,
                                cleanup : {"none", "closing", "killing", "removing", "removed",
                                           "done", "failed"}]]
  /\ beating \cup reaping \cup usurped \cup refused \subseteq Container
  /\ closed \in BOOLEAN /\ faults \in 0..MaxFaults

(***************************************************************************)
(* No container is left behind: one that exists is being launched, or has  *)
(* a record under its name, from which it can be destroyed; though         *)
(* creations of one name overlap, launches fail half way, and destruction, *)
(* expiry, liveness and shutdown overlap.  Two cases are set apart: a      *)
(* failed launch whose removal the runtime refuses, and the record that    *)
(* another session's destroy() takes with it because the runtime was slow  *)
(* to answer (`usurped').                                                  *)
(***************************************************************************)
NoContainerLost ==
  /\ TypeOK
  /\ \A c \in Container : Exists(c) =>
       \/ launch[c] # "over"
       \/ records[box[c].name] = c
       \/ c \in usurped \/ (c \in refused /\ session[c].status = "none")

(***************************************************************************)
(* A session disappears from the list when its container is gone, and not  *)
(* before: no create() of its name can meet the old container, or its      *)
(* profile, alive.                                                         *)
(***************************************************************************)
ForgottenWhenGone ==
  [][\A n \in Name : LET c == records[n] IN
       c # None /\ records'[n] # c => box'[c].state = "gone" \/ c \in usurped']_vars

(***************************************************************************)
(* A recorded session that has expired, or whose browser died, goes, while *)
(* the manager runs and when it is closed; no hanging session keeps the    *)
(* reaper or the heartbeat from the others.  A removal that was refused    *)
(* once is set apart: it is never tried again (see the README).            *)
(***************************************************************************)
DeadAndExpiredGo ==
  \A c \in Container :
    c \in Recorded /\ ~closed /\ (session[c].expired \/ box[c].state = "exited")
      ~> ~Exists(c) \/ c \in refused \/ c \in usurped
==============================================================================
