---------------------------- MODULE SessionsProofs ----------------------------
(***************************************************************************)
(* Machine-checked proofs about Sessions, for every set of names, number   *)
(* of launches, liveness limit and number of faults: no container is left  *)
(* behind, and no session is forgotten before its container is gone.       *)
(***************************************************************************)
EXTENDS Sessions, TLAPS

------------------------------------------------------------------------------
(* The inductive invariant. *)

(* What a launch() has reached tells the state of its container; it has a name from its
   creation on, and a session only when it is over. *)
LaunchOK(c) ==
  /\ launch[c] \in {"none", "creating"} => box[c].state = "none"
  /\ launch[c] \in {"starting", "connecting", "killing", "removing"} => Exists(c)
  /\ launch[c] # "none" => box[c].name \in Name
  /\ session[c].status # "none" => launch[c] = "over"

(* A container with a session exists until its removal was performed, and is gone from
   then on; a cleanup and a heartbeat are of a container with a session, which is dead
   when it has missed as many heartbeats as it may. *)
SessionOK(c) ==
  /\ session[c].status # "none" /\ session[c].cleanup \notin {"removed", "done"} => Exists(c)
  /\ session[c].cleanup \in {"removed", "done"} => box[c].state = "gone"
  /\ session[c].cleanup # "none" => session[c].status # "none"
  /\ c \in beating => session[c].status # "none"
  /\ session[c].status # "dead" => session[c].failures < LivenessLimit

(* A record is of a container of that name with a session.  As long as its container
   exists, a session keeps its record, or lost it to another session's destroy(); a failed
   launch whose container exists was refused its removal. *)
RecordsOK ==
  \A n \in Name : records[n] # None =>
    session[records[n]].status # "none" /\ box[records[n]].name = n

KeptOK(c) ==
  Exists(c) /\ launch[c] = "over" =>
    IF session[c].status = "none" THEN c \in refused
    ELSE records[box[c].name] = c \/ c \in usurped

(* The runtime's rule: no two containers that exist have the same name. *)
NamesUnique ==
  \A c, d \in Container : Exists(c) /\ Exists(d) /\ box[c].name = box[d].name => c = d

IInv ==
  /\ TypeOK
  /\ \A c \in Container : LaunchOK(c) /\ SessionOK(c) /\ KeptOK(c)
  /\ RecordsOK
  /\ NamesUnique

------------------------------------------------------------------------------
SessionRecord ==
  [status : {"none", "active", "destroying", "dead"}, failures : 0..LivenessLimit,
   expired : BOOLEAN, doomed : BOOLEAN,
   cleanup : {"none", "closing", "killing", "removing", "removed", "done", "failed"}]

(* Records stay records when a field of one is replaced. *)
LEMMA SessionsTyped == ASSUME TypeOK PROVE session \in [Container -> SessionRecord]
BY DEF TypeOK, SessionRecord

LEMMA CleanupTyped ==
  ASSUME TypeOK, NEW c \in Container, NEW from,
         NEW to \in {"none", "closing", "killing", "removing", "removed", "done", "failed"},
         Cleanup(c, from, to)
  PROVE  session' \in [Container -> SessionRecord]
<1>1. session' = [session EXCEPT ![c].cleanup = to]
  BY DEF Cleanup
<1> QED
  BY <1>1, SessionsTyped, Zenon DEF SessionRecord

LEMMA CleanupOverTyped ==
  ASSUME TypeOK, NEW c \in Container, NEW to \in {"done", "failed"},
         session' = [session EXCEPT ![c].cleanup = to, ![c].doomed = FALSE]
  PROVE  session' \in [Container -> SessionRecord]
<1> DEFINE r == [session[c] EXCEPT !.cleanup = to]
           s == [r EXCEPT !.doomed = FALSE]
<1>1. session[c] \in SessionRecord
  BY SessionsTyped
<1>2. r \in SessionRecord
  BY <1>1, Zenon DEF SessionRecord
<1> HIDE DEF r
<1>3. s \in SessionRecord
  BY <1>2, Zenon DEF SessionRecord
<1>4. session' = [session EXCEPT ![c] = s]
  BY SessionsTyped DEF r
<1> HIDE DEF s
<1> QED
  BY <1>3, <1>4, SessionsTyped

BoxRecord ==
  [state : {"none", "created", "running", "exited", "gone"}, name : Name \cup {None}]

LEMMA BecomesTyped ==
  ASSUME TypeOK, NEW c \in Container, NEW s \in {"created", "running", "exited", "gone"},
         Becomes(c, s)
  PROVE  box' \in [Container -> BoxRecord]
<1>1. box \in [Container -> BoxRecord]
  BY DEF TypeOK, BoxRecord
<1>2. box' = [box EXCEPT ![c].state = s]
  BY DEF Becomes
<1> QED
  BY <1>1, <1>2, Zenon DEF BoxRecord

LEMMA InitIInv == Init => IInv
<1> SUFFICES ASSUME Init PROVE IInv
  OBVIOUS
<1>1. TypeOK
  <2>1. session \in [Container -> SessionRecord]
    <3>1. 0 \in 0..LivenessLimit
      BY SessionConstants
    <3> QED
      BY <3>1, Zenon DEF Init, SessionRecord
  <2>2. box \in [Container -> [state : {"none", "created", "running", "exited", "gone"},
                              name : Name \cup {None}]]
    BY Zenon DEF Init
  <2>3. /\ launch \in [Container -> {"none", "creating", "starting", "connecting", "killing",
                                     "removing", "over"}]
        /\ records \in [Name -> Container \cup {None}]
    BY DEF Init
  <2>4. beating \cup reaping \cup usurped \cup refused \subseteq Container
    BY DEF Init
  <2>5. closed \in BOOLEAN
    BY Zenon DEF Init
  <2>6. faults \in 0..MaxFaults
    BY SessionConstants DEF Init
  <2> QED
    BY <2>1, <2>2, <2>3, <2>4, <2>5, <2>6, Zenon DEF TypeOK, SessionRecord
<1>2. \A c \in Container : LaunchOK(c) /\ SessionOK(c) /\ KeptOK(c)
  BY SessionConstants DEF Init, LaunchOK, SessionOK, KeptOK, Exists
<1>3. RecordsOK /\ NamesUnique
  BY DEF Init, RecordsOK, NamesUnique, Exists
<1> QED
  BY <1>1, <1>2, <1>3 DEF IInv

LEMMA CreateStep == ASSUME IInv, NEW n \in Name, Create(n) PROVE IInv'
<1> USE DEF IInv
<1>1. PICK c \in Container :
        /\ launch[c] = "none" /\ At(c, "creating")
        /\ box' = [box EXCEPT ![c].name = n]
  BY DEF Create
<1>2. TypeOK'
  BY <1>1 DEF Create, At, Calm, TypeOK
<1>3. \A d \in Container : LaunchOK(d)' /\ SessionOK(d)' /\ KeptOK(d)'
  BY <1>1 DEF Create, At, Calm, TypeOK, LaunchOK, SessionOK, KeptOK, Exists
<1>4. RecordsOK' /\ NamesUnique'
  BY <1>1 DEF Create, At, Calm, TypeOK, RecordsOK, NamesUnique, LaunchOK, Exists
<1> QED
  BY <1>2, <1>3, <1>4

LEMMA MakeContainerStep == ASSUME IInv, NEW c \in Container, MakeContainer(c) PROVE IInv'
<1> USE DEF IInv
<1>1. CASE Conflicts(c)
  <2>0. /\ launch[c] = "creating"
        /\ launch' = [launch EXCEPT ![c] = "over"]
        /\ UNCHANGED box
        /\ UNCHANGED <<records, session, beating, reaping, closed, usurped, refused, faults>>
    BY <1>1 DEF MakeContainer, At, Calm
  <2>1. TypeOK'
    BY <2>0, SessionConstants DEF TypeOK, SessionOK
  <2>2. \A d \in Container : LaunchOK(d)' /\ SessionOK(d)' /\ KeptOK(d)'
    BY <2>0, SessionConstants DEF TypeOK, LaunchOK, SessionOK, KeptOK, RecordsOK, NamesUnique, Exists
  <2>3. RecordsOK' /\ NamesUnique'
    BY <2>0 DEF TypeOK, LaunchOK, SessionOK, KeptOK, RecordsOK, NamesUnique, Exists
  <2> QED
    BY <2>1, <2>2, <2>3
<1>2. CASE ~Conflicts(c)
  <2>0. /\ launch[c] = "creating"
        /\ launch' = [launch EXCEPT ![c] = "starting"]
        /\ box' = [box EXCEPT ![c].state = "created"]
        /\ \A d \in Container : Exists(d) /\ box[d].name = box[c].name => d = c
        /\ UNCHANGED <<records, session, beating, reaping, closed, usurped, refused, faults>>
    BY <1>2 DEF MakeContainer, Conflicts, At, Becomes, Calm
  <2>1. TypeOK'
    BY <2>0, SessionConstants DEF TypeOK, SessionOK
  <2>2. \A d \in Container : LaunchOK(d)' /\ SessionOK(d)' /\ KeptOK(d)'
    BY <2>0, SessionConstants DEF TypeOK, LaunchOK, SessionOK, KeptOK, RecordsOK, NamesUnique, Exists
  <2>3. RecordsOK' /\ NamesUnique'
    BY <2>0 DEF TypeOK, LaunchOK, SessionOK, KeptOK, RecordsOK, NamesUnique, Exists
  <2> QED
    BY <2>1, <2>2, <2>3
<1> QED
  BY <1>1, <1>2

LEMMA StartContainerStep == ASSUME IInv, NEW c \in Container, StartContainer(c) PROVE IInv'
<1> USE DEF IInv
<1>1. TypeOK'
  BY SessionConstants DEF StartContainer, At, Becomes, Calm, TypeOK, SessionOK
<1>2. \A d \in Container : LaunchOK(d)' /\ SessionOK(d)' /\ KeptOK(d)'
  BY SessionConstants DEF StartContainer, At, Becomes, Calm, TypeOK, LaunchOK, SessionOK, KeptOK, RecordsOK, NamesUnique, Exists
<1>3. RecordsOK' /\ NamesUnique'
  BY DEF StartContainer, At, Becomes, Calm, TypeOK, RecordsOK, NamesUnique, LaunchOK, SessionOK, Exists
<1> QED
  BY <1>1, <1>2, <1>3

LEMMA ConnectedStep == ASSUME IInv, NEW c \in Container, Connected(c) PROVE IInv'
<1> USE DEF IInv
<1>1. TypeOK'
  <2>1. session' \in [Container -> SessionRecord]
    <3>1. session' = [session EXCEPT ![c].status = "active"]
      BY DEF Connected
    <3> QED
      BY <3>1, SessionsTyped, Zenon DEF SessionRecord
  <2> QED
    BY <2>1 DEF Connected, At, Calm, TypeOK, SessionRecord
<1>2. \A d \in Container : LaunchOK(d)' /\ SessionOK(d)' /\ KeptOK(d)'
  BY SessionConstants DEF Connected, At, Calm, TypeOK, LaunchOK, SessionOK, KeptOK, RecordsOK, NamesUnique, Exists
<1>3. RecordsOK' /\ NamesUnique'
  BY DEF Connected, At, Calm, TypeOK, RecordsOK, NamesUnique, LaunchOK, SessionOK, Exists
<1> QED
  BY <1>1, <1>2, <1>3

LEMMA LaunchFailsStep == ASSUME IInv, NEW c \in Container, LaunchFails(c) PROVE IInv'
<1> USE DEF IInv
<1>1. TypeOK'
  BY SessionConstants DEF LaunchFails, At, Calm, Fault, TypeOK, SessionOK
<1>2. \A d \in Container : LaunchOK(d)' /\ SessionOK(d)' /\ KeptOK(d)'
  BY SessionConstants DEF LaunchFails, At, Calm, Fault, TypeOK, LaunchOK, SessionOK, KeptOK, RecordsOK, NamesUnique, Exists
<1>3. RecordsOK' /\ NamesUnique'
  BY DEF LaunchFails, At, Calm, Fault, TypeOK, RecordsOK, NamesUnique, LaunchOK, SessionOK, Exists
<1> QED
  BY <1>1, <1>2, <1>3

LEMMA KillLaunchedStep == ASSUME IInv, NEW c \in Container, KillLaunched(c) PROVE IInv'
<1> USE DEF IInv
<1>1. CASE box[c].state = "running"
  <2>0. /\ launch[c] = "killing"
        /\ launch' = [launch EXCEPT ![c] = "removing"]
        /\ box' = [box EXCEPT ![c].state = "exited"]
        /\ UNCHANGED <<records, session, beating, reaping, closed, usurped, refused, faults>>
    BY <1>1 DEF KillLaunched, At, Becomes, Calm
  <2>1. TypeOK'
    BY <2>0, SessionConstants DEF TypeOK, SessionOK
  <2>2. \A d \in Container : LaunchOK(d)' /\ SessionOK(d)' /\ KeptOK(d)'
    BY <2>0, SessionConstants DEF TypeOK, LaunchOK, SessionOK, KeptOK, RecordsOK, NamesUnique, Exists
  <2>3. RecordsOK' /\ NamesUnique'
    BY <2>0 DEF TypeOK, LaunchOK, SessionOK, KeptOK, RecordsOK, NamesUnique, Exists
  <2> QED
    BY <2>1, <2>2, <2>3
<1>2. CASE box[c].state # "running"
  <2>0. /\ launch[c] = "killing"
        /\ launch' = [launch EXCEPT ![c] = "removing"]
        /\ UNCHANGED box
        /\ UNCHANGED <<records, session, beating, reaping, closed, usurped, refused, faults>>
    BY <1>2 DEF KillLaunched, At, Becomes, Calm
  <2>1. TypeOK'
    BY <2>0, SessionConstants DEF TypeOK, SessionOK
  <2>2. \A d \in Container : LaunchOK(d)' /\ SessionOK(d)' /\ KeptOK(d)'
    BY <2>0, SessionConstants DEF TypeOK, LaunchOK, SessionOK, KeptOK, RecordsOK, NamesUnique, Exists
  <2>3. RecordsOK' /\ NamesUnique'
    BY <2>0 DEF TypeOK, LaunchOK, SessionOK, KeptOK, RecordsOK, NamesUnique, Exists
  <2> QED
    BY <2>1, <2>2, <2>3
<1> QED
  BY <1>1, <1>2

LEMMA RemoveLaunchedStep == ASSUME IInv, NEW c \in Container, RemoveLaunched(c) PROVE IInv'
<1> USE DEF IInv
<1>1. CASE Becomes(c, "gone") /\ UNCHANGED refused /\ Calm
  <2>1. TypeOK'
    BY <1>1 DEF RemoveLaunched, At, Becomes, Calm, TypeOK
  <2>2. \A d \in Container : LaunchOK(d)' /\ SessionOK(d)' /\ KeptOK(d)'
    BY <1>1 DEF RemoveLaunched, At, Becomes, Calm, TypeOK, LaunchOK, SessionOK, KeptOK, RecordsOK, NamesUnique, Exists
  <2>3. RecordsOK' /\ NamesUnique'
    BY <1>1 DEF RemoveLaunched, At, Becomes, Calm, TypeOK, LaunchOK, SessionOK, KeptOK, RecordsOK, NamesUnique, Exists
  <2> QED
    BY <2>1, <2>2, <2>3
<1>2. CASE refused' = refused \cup {c} /\ UNCHANGED box /\ Fault
  <2>1. TypeOK'
    BY <1>2, SessionConstants DEF RemoveLaunched, At, Fault, TypeOK
  <2>2. \A d \in Container : LaunchOK(d)' /\ SessionOK(d)' /\ KeptOK(d)'
    BY <1>2, SessionConstants DEF RemoveLaunched, At, Fault, TypeOK, LaunchOK, SessionOK, KeptOK, RecordsOK, NamesUnique, Exists
  <2>3. RecordsOK' /\ NamesUnique'
    BY <1>2, SessionConstants DEF RemoveLaunched, At, Fault, TypeOK, LaunchOK, SessionOK, KeptOK, RecordsOK, NamesUnique, Exists
  <2> QED
    BY <2>1, <2>2, <2>3
<1> QED
  BY <1>1, <1>2 DEF RemoveLaunched

LEMMA CloseGracefullyStep == ASSUME IInv, NEW c \in Container, CloseGracefully(c) PROVE IInv'
<1> USE DEF IInv
<1>1. TypeOK'
  <2>1. session' \in [Container -> SessionRecord]
    BY CleanupTyped DEF CloseGracefully
  <2>2. box' \in [Container -> BoxRecord]
    BY BecomesTyped DEF CloseGracefully
  <2> QED
    BY <2>1, <2>2 DEF CloseGracefully, Calm, TypeOK, SessionRecord, BoxRecord
<1>2. \A d \in Container : LaunchOK(d)' /\ SessionOK(d)' /\ KeptOK(d)'
  BY SessionConstants DEF CloseGracefully, Cleanup, Becomes, Calm, TypeOK, LaunchOK, SessionOK, KeptOK, RecordsOK, NamesUnique, Exists
<1>3. RecordsOK' /\ NamesUnique'
  BY DEF CloseGracefully, Cleanup, Becomes, Calm, TypeOK, RecordsOK, NamesUnique, LaunchOK, SessionOK, Exists
<1> QED
  BY <1>1, <1>2, <1>3

LEMMA CloseInVainStep == ASSUME IInv, NEW c \in Container, CloseInVain(c) PROVE IInv'
<1> USE DEF IInv
<1>1. TypeOK'
  <2>1. session' \in [Container -> SessionRecord]
    BY CleanupTyped DEF CloseInVain
  <2> QED
    BY <2>1 DEF CloseInVain, Calm, TypeOK, SessionRecord
<1>2. \A d \in Container : LaunchOK(d)' /\ SessionOK(d)' /\ KeptOK(d)'
  BY SessionConstants DEF CloseInVain, Cleanup, Calm, TypeOK, LaunchOK, SessionOK, KeptOK, RecordsOK, NamesUnique, Exists
<1>3. RecordsOK' /\ NamesUnique'
  BY DEF CloseInVain, Cleanup, Calm, TypeOK, RecordsOK, NamesUnique, LaunchOK, SessionOK, Exists
<1> QED
  BY <1>1, <1>2, <1>3

LEMMA KillStep == ASSUME IInv, NEW c \in Container, Kill(c) PROVE IInv'
<1> USE DEF IInv
<1>1. TypeOK'
  <2>1. session' \in [Container -> SessionRecord]
    BY CleanupTyped DEF Kill
  <2>2. box' \in [Container -> BoxRecord]
    BY BecomesTyped DEF Kill
  <2> QED
    BY <2>1, <2>2 DEF Kill, Calm, TypeOK, SessionRecord, BoxRecord
<1>2. \A d \in Container : LaunchOK(d)' /\ SessionOK(d)' /\ KeptOK(d)'
  BY SessionConstants DEF Kill, Cleanup, Becomes, Calm, TypeOK, LaunchOK, SessionOK, KeptOK, RecordsOK, NamesUnique, Exists
<1>3. RecordsOK' /\ NamesUnique'
  BY DEF Kill, Cleanup, Becomes, Calm, TypeOK, RecordsOK, NamesUnique, LaunchOK, SessionOK, Exists
<1> QED
  BY <1>1, <1>2, <1>3

LEMMA RemoveContainerStep == ASSUME IInv, NEW c \in Container, RemoveContainer(c) PROVE IInv'
<1> USE DEF IInv
<1>1. TypeOK'
  <2>1. session' \in [Container -> SessionRecord]
    BY CleanupTyped DEF RemoveContainer
  <2>2. box' \in [Container -> BoxRecord]
    BY BecomesTyped DEF RemoveContainer
  <2> QED
    BY <2>1, <2>2 DEF RemoveContainer, Calm, TypeOK, SessionRecord, BoxRecord
<1>2. \A d \in Container : LaunchOK(d)' /\ SessionOK(d)' /\ KeptOK(d)'
  BY SessionConstants DEF RemoveContainer, Cleanup, Becomes, Calm, TypeOK, LaunchOK, SessionOK, KeptOK, RecordsOK, NamesUnique, Exists
<1>3. RecordsOK' /\ NamesUnique'
  BY DEF RemoveContainer, Cleanup, Becomes, Calm, TypeOK, RecordsOK, NamesUnique, LaunchOK, SessionOK, Exists
<1> QED
  BY <1>1, <1>2, <1>3

LEMMA RemoveRefusedStep == ASSUME IInv, NEW c \in Container, RemoveRefused(c) PROVE IInv'
<1> USE DEF IInv
<1>1. TypeOK'
  <2>1. session' \in [Container -> SessionRecord]
    BY CleanupOverTyped DEF RemoveRefused
  <2>2. beating' \subseteq Container /\ reaping' \subseteq Container /\ refused' \subseteq Container
    BY DEF RemoveRefused, Over, TypeOK
  <2>3. faults' \in 0..MaxFaults
    BY SessionConstants DEF RemoveRefused, Fault, TypeOK
  <2> QED
    BY <2>1, <2>2, <2>3 DEF RemoveRefused, TypeOK, SessionRecord
<1>2. \A d \in Container : LaunchOK(d)' /\ SessionOK(d)' /\ KeptOK(d)'
  BY SessionConstants DEF RemoveRefused, Over, Fault, TypeOK, LaunchOK, SessionOK, KeptOK, RecordsOK, NamesUnique, Exists
<1>3. RecordsOK' /\ NamesUnique'
  BY DEF RemoveRefused, Over, Fault, TypeOK, RecordsOK, NamesUnique, LaunchOK, SessionOK, Exists
<1> QED
  BY <1>1, <1>2, <1>3

LEMMA CleanedUpStep == ASSUME IInv, NEW c \in Container, CleanedUp(c) PROVE IInv'
<1> USE DEF IInv
<1>1. TypeOK'
  <2>1. session' \in [Container -> SessionRecord]
    BY CleanupOverTyped DEF CleanedUp
  <2>2. beating' \subseteq Container /\ reaping' \subseteq Container
    BY DEF CleanedUp, Over, TypeOK
  <2>3. records' \in [Name -> Container \cup {None}] /\ usurped' \subseteq Container
    <3>1. CASE session[c].doomed
      BY <3>1 DEF CleanedUp, Deleted, TypeOK
    <3>2. CASE ~session[c].doomed
      BY <3>2 DEF CleanedUp, TypeOK
    <3> QED
      BY <3>1, <3>2
  <2> QED
    BY <2>1, <2>2, <2>3 DEF CleanedUp, Calm, TypeOK, SessionRecord
<1>2. \A d \in Container : LaunchOK(d)' /\ SessionOK(d)' /\ KeptOK(d)'
  BY SessionConstants DEF CleanedUp, Over, Deleted, Calm, TypeOK, LaunchOK, SessionOK, KeptOK, RecordsOK, NamesUnique, Exists
<1>3. RecordsOK' /\ NamesUnique'
  BY DEF CleanedUp, Over, Deleted, Calm, TypeOK, RecordsOK, NamesUnique, LaunchOK, SessionOK, Exists
<1> QED
  BY <1>1, <1>2, <1>3

(* What destroy() makes of the record of a session whose cleanup is not over. *)
LEMMA DestroyedEffect ==
  ASSUME TypeOK, NEW c \in Container, session[c].status # "none"
  PROVE  LET s == session[c] d == Destroyed(s) IN
         /\ d \in SessionRecord
         /\ d.status # "none" /\ d.failures = s.failures
         /\ d.status = "dead" <=> s.status = "dead"
         /\ d.cleanup = IF s.cleanup = "none" THEN "closing" ELSE s.cleanup
<1> DEFINE s == session[c]
           d == IF s.status = "dead" THEN s ELSE [s EXCEPT !.status = "destroying"]
           b == IF d.cleanup = "none" THEN [d EXCEPT !.cleanup = "closing"] ELSE d
           e == [b EXCEPT !.doomed = (s.cleanup # "failed")]
<1>1. s \in SessionRecord
  BY DEF TypeOK, SessionRecord
<1>2. Destroyed(s) = e
  BY Zenon DEF Destroyed, Begun
<1> HIDE DEF s
<1>3. /\ d \in SessionRecord /\ d.status = IF s.status = "dead" THEN "dead" ELSE "destroying"
      /\ d.failures = s.failures /\ d.cleanup = s.cleanup
  BY <1>1, Zenon DEF SessionRecord
<1> HIDE DEF d
<1>4. /\ b \in SessionRecord /\ b.status = d.status /\ b.failures = d.failures
      /\ b.cleanup = IF d.cleanup = "none" THEN "closing" ELSE d.cleanup
  BY <1>3, Zenon DEF SessionRecord
<1> HIDE DEF b
<1>5. /\ e \in SessionRecord /\ e.status = b.status /\ e.failures = b.failures
      /\ e.cleanup = b.cleanup
  BY <1>4, Zenon DEF SessionRecord
<1> HIDE DEF e
<1> QED
  BY <1>2, <1>3, <1>4, <1>5 DEF s

(* What it makes of the records of C, which nobody else's cleanup or death disturbs. *)
DestroyedFrom(C) ==
  /\ session' \in [Container -> SessionRecord]
  /\ \A d \in Container :
       /\ session'[d].status = "none" <=> session[d].status = "none"
       /\ session'[d].status = "dead" <=> session[d].status = "dead"
       /\ session'[d].failures = session[d].failures
       /\ \/ session'[d].cleanup = session[d].cleanup
          \/ d \in C /\ session[d].cleanup = "none" /\ session'[d].cleanup = "closing"

LEMMA DestroyAllEffect ==
  ASSUME TypeOK, RecordsOK, NEW C, C \subseteq Recorded, DestroyAll(C)
  PROVE  DestroyedFrom(C)
<1> DEFINE S(d) == IF d \in C /\ ~Removed(d) THEN Destroyed(session[d]) ELSE session[d]
<1>1. session' = [d \in Container |-> S(d)]
  BY Zenon DEF DestroyAll
<1>2. ASSUME NEW d \in Container
      PROVE  /\ S(d) \in SessionRecord
             /\ S(d).status = "none" <=> session[d].status = "none"
             /\ S(d).status = "dead" <=> session[d].status = "dead"
             /\ S(d).failures = session[d].failures
             /\ \/ S(d).cleanup = session[d].cleanup
                \/ d \in C /\ session[d].cleanup = "none" /\ S(d).cleanup = "closing"
  <2>1. CASE d \in C /\ ~Removed(d)
    <3>1. session[d].status # "none"
      BY <2>1 DEF Recorded, RecordsOK
    <3>2. S(d) = Destroyed(session[d])
      BY <2>1
    <3> HIDE DEF S
    <3> QED
      BY <2>1, <3>1, <3>2, DestroyedEffect
  <2>2. CASE ~(d \in C /\ ~Removed(d))
    BY <2>2 DEF TypeOK, SessionRecord
  <2> QED
    BY <2>1, <2>2
<1> HIDE DEF S
<1>3. session' \in [Container -> SessionRecord]
  BY <1>1, <1>2, Zenon
<1>4. \A d \in Container : session'[d] = S(d)
  BY <1>1
<1> QED
  BY <1>2, <1>3, <1>4 DEF DestroyedFrom

(* Records are only deleted of sessions whose container is gone. *)
LEMMA KeptStep ==
  ASSUME IInv, NEW C, C \subseteq Recorded, DestroyedFrom(C), records' = Kept(C),
         UNCHANGED <<box, launch, beating, usurped, refused, faults>>,
         reaping' \subseteq Container, closed' \in BOOLEAN
  PROVE  IInv'
<1> USE DEF IInv
<1>1. TypeOK'
  BY DEF DestroyedFrom, Kept, TypeOK, SessionRecord
<1>2. \A n \in Name : records'[n] = records[n]
                      \/ (records'[n] = None /\ session[records[n]].cleanup = "done")
  BY DEF Kept, Removed
<1>3. \A d \in Container : LaunchOK(d)' /\ SessionOK(d)' /\ KeptOK(d)'
  BY <1>2 DEF DestroyedFrom, TypeOK, LaunchOK, SessionOK, KeptOK, RecordsOK, Recorded, Exists
<1>4. RecordsOK' /\ NamesUnique'
  BY <1>2 DEF DestroyedFrom, TypeOK, RecordsOK, NamesUnique, Exists
<1> QED
  BY <1>1, <1>3, <1>4

LEMMA DestroyStep == ASSUME IInv, NEW n \in Name, Destroy(n) PROVE IInv'
<1>1. {records[n]} \subseteq Recorded
  BY DEF Destroy, Recorded
<1>2. DestroyedFrom({records[n]})
  BY <1>1, DestroyAllEffect DEF Destroy, IInv
<1> QED
  BY <1>1, <1>2, KeptStep DEF Destroy, DestroyAll, Calm, IInv, TypeOK

LEMMA ExpireStep == ASSUME IInv, NEW c \in Container, Expire(c) PROVE IInv'
<1> USE DEF IInv
<1>1. TypeOK'
  <2>1. session' \in [Container -> SessionRecord]
    <3>1. session' = [session EXCEPT ![c].expired = TRUE]
      BY DEF Expire
    <3> QED
      BY <3>1, SessionsTyped, Zenon DEF SessionRecord
  <2> QED
    BY <2>1 DEF Expire, Calm, TypeOK, SessionRecord
<1>2. \A d \in Container : LaunchOK(d)' /\ SessionOK(d)' /\ KeptOK(d)'
  BY SessionConstants DEF Expire, Calm, TypeOK, LaunchOK, SessionOK, KeptOK, RecordsOK, NamesUnique, Exists
<1>3. RecordsOK' /\ NamesUnique'
  BY DEF Expire, Calm, TypeOK, RecordsOK, NamesUnique, LaunchOK, SessionOK, Exists
<1> QED
  BY <1>1, <1>2, <1>3

LEMMA ReapStep == ASSUME IInv, Reap PROVE IInv'
<1> DEFINE C == {c \in Recorded : session[c].expired /\ session[c].status # "destroying"}
<1>1. DestroyAll(C) /\ reaping' \subseteq C /\ C \subseteq Recorded
  BY DEF Reap
<1>2. UNCHANGED <<box, launch, beating, closed, usurped, refused, faults>>
  BY DEF Reap, Calm
<1> HIDE DEF C
<1>3. DestroyedFrom(C)
  BY <1>1, DestroyAllEffect DEF IInv
<1>4. Recorded \subseteq Container /\ records' = Kept(C) /\ closed \in BOOLEAN
  BY <1>1 DEF IInv, TypeOK, Recorded, DestroyAll
<1> QED
  BY <1>1, <1>2, <1>3, <1>4, KeptStep

LEMMA BeatStep == ASSUME IInv, Beat PROVE IInv'
<1> USE DEF IInv
<1>1. TypeOK'
  BY SessionConstants DEF Beat, Recorded, Calm, TypeOK, SessionOK
<1>2. \A d \in Container : LaunchOK(d)' /\ SessionOK(d)' /\ KeptOK(d)'
  BY SessionConstants DEF Beat, Recorded, Calm, TypeOK, LaunchOK, SessionOK, KeptOK, RecordsOK, NamesUnique, Exists
<1>3. RecordsOK' /\ NamesUnique'
  BY DEF Beat, Recorded, Calm, TypeOK, RecordsOK, NamesUnique, LaunchOK, SessionOK, Exists
<1> QED
  BY <1>1, <1>2, <1>3

LEMMA BeatAnsweredStep == ASSUME IInv, NEW c \in Container, BeatAnswered(c) PROVE IInv'
<1> USE DEF IInv
<1>1. TypeOK'
  BY SessionConstants DEF BeatAnswered, Calm, TypeOK, SessionOK
<1>2. \A d \in Container : LaunchOK(d)' /\ SessionOK(d)' /\ KeptOK(d)'
  BY SessionConstants DEF BeatAnswered, Calm, TypeOK, LaunchOK, SessionOK, KeptOK, RecordsOK, NamesUnique, Exists
<1>3. RecordsOK' /\ NamesUnique'
  BY DEF BeatAnswered, Calm, TypeOK, RecordsOK, NamesUnique, LaunchOK, SessionOK, Exists
<1> QED
  BY <1>1, <1>2, <1>3

LEMMA BeatMissedStep == ASSUME IInv, NEW c \in Container, BeatMissed(c) PROVE IInv'
<1> DEFINE k == session[c].failures + 1
           r == [session[c] EXCEPT !.failures = k]
           dead == [session[c] EXCEPT !.failures = k, !.status = "dead"]
           e == IF k < LivenessLimit THEN r ELSE Begun(dead)
<1>1. /\ session[c] \in SessionRecord /\ session \in [Container -> SessionRecord]
      /\ session[c].status \notin {"none", "dead"}
  BY DEF BeatMissed, IInv, TypeOK, SessionRecord, SessionOK
<1>2. k \in 0..LivenessLimit
  BY SessionConstants, <1>1 DEF IInv, TypeOK, SessionOK, SessionRecord
<1>3. /\ session' = [session EXCEPT ![c] = e]
      /\ beating' \subseteq beating /\ faults' \in 0..MaxFaults
      /\ UNCHANGED <<box, launch, records, reaping, closed, usurped, refused>>
  <2>1. faults' \in 0..MaxFaults
    BY SessionConstants DEF BeatMissed, Fault, Calm, IInv, TypeOK
  <2>2. CASE k < LivenessLimit
    BY <1>1, <2>1, <2>2, Zenon DEF BeatMissed, IInv, TypeOK
  <2>3. CASE ~(k < LivenessLimit)
    BY <1>1, <2>1, <2>3, Zenon DEF BeatMissed, IInv, TypeOK
  <2> QED
    BY <2>2, <2>3
<1> HIDE DEF k
<1>4. /\ r \in SessionRecord /\ r.status = session[c].status /\ r.failures = k
      /\ r.cleanup = session[c].cleanup
      /\ dead \in SessionRecord /\ dead.status = "dead" /\ dead.failures = k
      /\ dead.cleanup = session[c].cleanup
  BY <1>1, <1>2, Zenon DEF SessionRecord
<1> HIDE DEF r, dead
<1>5. /\ Begun(dead) \in SessionRecord /\ Begun(dead).status = "dead" /\ Begun(dead).failures = k
      /\ Begun(dead).cleanup = IF dead.cleanup = "none" THEN "closing" ELSE dead.cleanup
  BY <1>4, Zenon DEF SessionRecord, Begun
<1>6. /\ e \in SessionRecord /\ e.status # "none"
      /\ e.status # "dead" => e.failures < LivenessLimit
      /\ e.cleanup = session[c].cleanup \/ (session[c].cleanup = "none" /\ e.cleanup = "closing")
  BY <1>1, <1>4, <1>5
<1> HIDE DEF e
<1>7. TypeOK'
  <2>1. session' \in [Container -> SessionRecord]
    BY <1>1, <1>3, <1>6, Zenon
  <2> QED
    BY <1>3, <2>1 DEF IInv, TypeOK, SessionRecord
<1>8. \A d \in Container : LaunchOK(d)' /\ SessionOK(d)' /\ KeptOK(d)'
  BY <1>1, <1>3, <1>6 DEF IInv, TypeOK, LaunchOK, SessionOK, KeptOK, Exists
<1>9. RecordsOK' /\ NamesUnique'
  BY <1>1, <1>3, <1>6 DEF IInv, TypeOK, RecordsOK, NamesUnique, Exists
<1> QED
  BY <1>7, <1>8, <1>9 DEF IInv

LEMMA CrashStep == ASSUME IInv, NEW c \in Container, Crash(c) PROVE IInv'
<1> USE DEF IInv
<1>1. TypeOK'
  BY SessionConstants DEF Crash, Becomes, Fault, TypeOK, SessionOK
<1>2. \A d \in Container : LaunchOK(d)' /\ SessionOK(d)' /\ KeptOK(d)'
  BY SessionConstants DEF Crash, Becomes, Fault, TypeOK, LaunchOK, SessionOK, KeptOK, RecordsOK, NamesUnique, Exists
<1>3. RecordsOK' /\ NamesUnique'
  BY DEF Crash, Becomes, Fault, TypeOK, RecordsOK, NamesUnique, LaunchOK, SessionOK, Exists
<1> QED
  BY <1>1, <1>2, <1>3

LEMMA CloseStep == ASSUME IInv, Close PROVE IInv'
<1> USE DEF IInv
<1>1. TypeOK'
  <2> DEFINE D(c) == Begun(session[c])
             S(c) == IF c \in Recorded /\ ~Removed(c)
                     THEN [D(c) EXCEPT !.doomed = (session[c].cleanup # "failed")]
                     ELSE session[c]
  <2>1. ASSUME NEW c \in Container PROVE S(c) \in SessionRecord
    <3>1. session[c] \in SessionRecord
      BY SessionsTyped
    <3>2. D(c) \in SessionRecord
      BY <3>1, Zenon DEF Begun, SessionRecord
    <3> HIDE DEF D
    <3>3. [D(c) EXCEPT !.doomed = (session[c].cleanup # "failed")] \in SessionRecord
      BY <3>2, Zenon DEF SessionRecord
    <3> QED
      BY <3>1, <3>3
  <2>2. session' = [c \in Container |-> S(c)]
    BY Zenon DEF Close
  <2> HIDE DEF S
  <2>3. session' \in [Container -> SessionRecord]
    BY <2>1, <2>2
  <2>4. records' \in [Name -> Container \cup {None}]
    BY DEF Close, Kept, TypeOK
  <2> QED
    BY <2>3, <2>4 DEF Close, Calm, TypeOK, SessionRecord
<1>2. \A d \in Container : LaunchOK(d)' /\ SessionOK(d)' /\ KeptOK(d)'
  BY SessionConstants DEF Close, Kept, Removed, Begun, Recorded, Calm, TypeOK, LaunchOK, SessionOK, KeptOK, RecordsOK, NamesUnique, Exists
<1>3. RecordsOK' /\ NamesUnique'
  BY DEF Close, Kept, Removed, Begun, Recorded, Calm, TypeOK, RecordsOK, NamesUnique, LaunchOK, SessionOK, Exists
<1> QED
  BY <1>1, <1>2, <1>3

LEMMA StutterStep == ASSUME IInv, UNCHANGED vars PROVE IInv'
BY DEF vars, IInv, TypeOK, LaunchOK, SessionOK, KeptOK, RecordsOK, NamesUnique, Exists

LEMMA NextIInv == IInv /\ [Next]_vars => IInv'
<1> SUFFICES ASSUME IInv, [Next]_vars PROVE IInv'
  OBVIOUS
<1>1. ASSUME Reap \/ Beat \/ Close PROVE IInv'
  BY <1>1, ReapStep, BeatStep, CloseStep
<1>2. ASSUME NEW n \in Name, Create(n) \/ Destroy(n) PROVE IInv'
  BY <1>2, CreateStep, DestroyStep
<1>3. ASSUME NEW c \in Container, LaunchStep(c) \/ LaunchFails(c) PROVE IInv'
  BY <1>3, MakeContainerStep, StartContainerStep, ConnectedStep, KillLaunchedStep,
     RemoveLaunchedStep, LaunchFailsStep DEF LaunchStep
<1>4. ASSUME NEW c \in Container, CleanupStep(c) \/ RemoveRefused(c) PROVE IInv'
  BY <1>4, CloseGracefullyStep, CloseInVainStep, KillStep, RemoveContainerStep, CleanedUpStep,
     RemoveRefusedStep DEF CleanupStep
<1>5. ASSUME NEW c \in Container, Expire(c) \/ BeatAnswered(c) \/ BeatMissed(c) \/ Crash(c)
      PROVE IInv'
  BY <1>5, ExpireStep, BeatAnsweredStep, BeatMissedStep, CrashStep
<1>6. CASE UNCHANGED vars
  BY <1>6, StutterStep
<1> QED
  BY <1>1, <1>2, <1>3, <1>4, <1>5, <1>6 DEF Next

LEMMA Invariance == Spec => []IInv
<1>1. Init => IInv
  BY InitIInv
<1>2. IInv /\ [Next]_vars => IInv'
  BY NextIInv
<1> QED
  BY <1>1, <1>2, PTL DEF Spec

------------------------------------------------------------------------------
(* A container that exists is being launched, or has a record through which it can still
   be destroyed: whatever creations, failing launches, destructions,
   heartbeats, expiry and shutdown overlap (manager.ts, dockerhost.ts). *)
THEOREM NoContainerLostHolds == Spec => []NoContainerLost
<1>1. IInv => NoContainerLost
  BY DEF IInv, NoContainerLost, KeptOK
<1> QED
  BY <1>1, Invariance, PTL

(* While its container exists a session keeps its record, or it was taken with it by the
   destroy() of another session of that name; a record overwritten by a new session of its
   name was that of a container that is gone. *)
THEOREM ForgottenWhenGoneHolds == Spec => ForgottenWhenGone
<1> DEFINE Forgets == \A n \in Name : LET c == records[n] IN
              c # None /\ records'[n] # c => box'[c].state = "gone" \/ c \in usurped'
<1>1. IInv /\ [Next]_vars => [Forgets]_vars
  <2> SUFFICES ASSUME IInv, Next, NEW n \in Name, records[n] # None, records'[n] # records[n]
               PROVE  box'[records[n]].state = "gone" \/ records[n] \in usurped'
    BY DEF vars
  <2> DEFINE c == records[n]
  <2>1. /\ c \in Container /\ box[c].name = n /\ session[c].status # "none"
        /\ session[c].cleanup \in {"removed", "done"} => box[c].state = "gone"
        /\ ~Exists(c) => box[c].state = "gone"
    BY DEF IInv, TypeOK, RecordsOK, SessionOK, Exists
  <2>2. CASE \E d \in Container : Connected(d)
    <3>1. PICK d \in Container : Connected(d)
      BY <2>2
    <3>2. Exists(d) /\ box[d].name = n /\ d # c /\ UNCHANGED box
      BY <3>1 DEF Connected, Exists, IInv, TypeOK
    <3> QED
      BY <2>1, <3>2 DEF IInv, NamesUnique
  <2>3. CASE \E d \in Container : CleanedUp(d)
    <3>1. PICK d \in Container : CleanedUp(d)
      BY <2>3
    <3>2. box[d].name = n /\ UNCHANGED box /\ session[d].cleanup = "removed"
      BY <3>1 DEF CleanedUp, Deleted, IInv, TypeOK
    <3>3. usurped' = IF records[n] \in {None, d} THEN usurped ELSE usurped \cup {records[n]}
      BY <3>1, <3>2 DEF CleanedUp, Deleted
    <3> QED
      BY <2>1, <3>2, <3>3
  <2>4. CASE Reap \/ Close \/ \E m \in Name : Destroy(m)
    <3>1. UNCHANGED box /\ \E C : records' = Kept(C)
      BY <2>4, Zenon DEF Reap, Close, Destroy, DestroyAll
    <3>2. session[c].cleanup = "done"
      BY <3>1 DEF Kept, Removed
    <3> QED
      BY <2>1, <3>1, <3>2
  <2>5. CASE UNCHANGED records
    BY <2>5
  <2> QED
    BY <2>2, <2>3, <2>4, <2>5
    DEF Next, LaunchStep, CleanupStep, Beat, Create, MakeContainer, StartContainer, KillLaunched,
        RemoveLaunched, LaunchFails, CloseGracefully, CloseInVain, Kill, RemoveContainer,
        RemoveRefused, Expire, BeatAnswered, BeatMissed, Crash
<1> QED
  BY <1>1, Invariance, PTL DEF Spec, ForgottenWhenGone
==============================================================================
