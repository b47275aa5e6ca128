-------------------------- MODULE EnvironmentBuild --------------------------
(***************************************************************************)
(* One environment: its built versions, the active one and the path        *)
(* sessions read it at (runner/environments.py), with the gateway handlers *)
(* that build, activate and delete it (gateway/app.py).                    *)
(*                                                                         *)
(* The files are the state: a version's tree and its .hr-build.json, the   *)
(* active link, the mount link.  A build is a thread, and everything ends  *)
(* when the container restarts; the trees and the active link stay, the    *)
(* mount link, on the container's own filesystem, does not.                *)
(*                                                                         *)
(* The specification's own names begin with Env: WorkspaceProofs proves    *)
(* about this module and SessionLease together.                            *)
(***************************************************************************)
EXTENDS Integers, FiniteSetsExt

CONSTANTS
  MaxVersion,  \* bound: builds
  MaxRestarts, \* bound: restarts of the container
  Builder,     \* POST /v1/environments/{id}/build calls
  Activator,   \* POST .../versions/{n}/activate calls
  Deleter,     \* DELETE /v1/environments/{id} calls
  DiskFaults,  \* TRUE: a write may fail (a full disk)
  None         \* no version

Version == 1 .. MaxVersion

ASSUME MaxVersionAssumption == MaxVersion \in Nat
ASSUME MaxRestartsAssumption == MaxRestarts \in Nat
ASSUME NoneAssumption == None \notin Version

VARIABLES
  record,   \* .hr-build.json of each version: its status
  tree,     \* the files of each version
  active,   \* the active link
  mount,    \* whose version /env/<slug> leads to
  build,    \* the build thread
  builder,  \* the calls, and where each stands
  activator,
  deleter,
  status,   \* the Environment vertex: status
  deleted,  \* the Environment vertex: deleted
  unhealed, \* history: failed versions that the failing disk left active
  rebuilt,  \* history: versions built anew after they were finished or active
  restarts

calls == <<builder, activator, deleter>>
files == <<record, tree, active, mount>>
vertex == <<status, deleted>>
history == <<unhealed, rebuilt, restarts>>
envVars == <<files, build, calls, vertex, history>>
-----------------------------------------------------------------------------
CallPc == {"idle", "post", "point", "mount", "unmount", "mark", "done"}
BuildPc == {"none", "clear", "install", "was", "point", "mount",
            "record", "undo", "fail"}
NoBuild == [pc |-> "none", n |-> None, was |-> None]
Idle == [pc |-> "idle", n |-> None]
Step(l) == build' = [build EXCEPT !.pc = l]

\* Mutant: a record is read as it lies.
ReadAsItLies(v) == record[v]

\* _as_read: a record that says building with no thread behind it has failed.
AsRead(v) ==
  IF record[v] = "building" /\ build.n # v THEN "failed" ELSE record[v]

Known == {v \in Version : record[v] # "none" \/ tree[v] # "none"}
Latest == IF Known = {} THEN 0 ELSE Max(Known)

\* _env_status, from what the runner holds.
LiveStatus ==
  IF Latest # 0 /\ AsRead(Latest) = "building" THEN "building"
  ELSE IF active # None THEN "ready"
  ELSE IF Latest # 0 /\ AsRead(Latest) = "failed" THEN "failed" ELSE "empty"

\* Mutant: any version that has a record can be activated.
Recorded(v) == record[v] # "none"

\* activate_version: a finished build.
Finished(v) == record[v] = "ready" /\ tree[v] # "none"

\* The last steps of a build whose files are ready, in their order.
Following(l) ==
  [was |-> "point", point |-> "mount", mount |-> "record", record |-> "none"][l]

\* ... and what it makes active when they fail.
ActiveBefore == build.was

\* Mutant: a status the console does not know.
Aborted == "aborted"

Failed == "failed"
-----------------------------------------------------------------------------
EnvInit ==
  /\ record = [v \in Version |-> "none"]
  /\ tree = [v \in Version |-> "none"]
  /\ active = None /\ mount = "none"
  /\ build = NoBuild
  /\ builder = [b \in Builder |-> Idle]
  /\ activator = [a \in Activator |-> Idle]
  /\ deleter = [d \in Deleter |-> Idle]
  /\ status = "empty" /\ deleted = FALSE
  /\ unhealed = {} /\ rebuilt = {} /\ restarts = 0

(* The gateway's record, brought up to date by any read of the environment. *)

Refresh ==
  /\ status # LiveStatus /\ ~deleted
  /\ status' = LiveStatus
  /\ UNCHANGED <<files, build, calls, deleted, history>>

(* POST build. *)

\* No build is running; the next version is the latest one's successor.  Two
\* calls may read before either has asked the runner, and take one number.
BuildRead(b) ==
  /\ builder[b].pc = "idle" /\ ~deleted /\ Latest < MaxVersion
  /\ status' = LiveStatus
  /\ builder' = [builder EXCEPT ![b] =
       IF LiveStatus = "building" THEN [pc |-> "done", n |-> None]
                                  ELSE [pc |-> "post", n |-> Latest + 1]]
  /\ UNCHANGED <<files, build, activator, deleter, deleted, history>>

\* start_build: refused while any version of the environment is building.
BuildPost(b) ==
  /\ builder[b].pc = "post"
  /\ IF build.pc = "none"
     THEN /\ build' = [pc |-> "clear", n |-> builder[b].n, was |-> None]
          /\ builder' = [builder EXCEPT ![b].pc = "mark"]
     ELSE /\ builder' = [builder EXCEPT ![b].pc = "done"]
          /\ UNCHANGED build
  /\ UNCHANGED <<files, activator, deleter, vertex, history>>

BuildMark(b) ==
  /\ builder[b].pc = "mark"
  /\ status' = "building"
  /\ builder' = [builder EXCEPT ![b].pc = "done"]
  /\ UNCHANGED <<files, build, activator, deleter, deleted, history>>

(* The build thread. *)

\* What was there of this version goes, also a finished one that a call with an
\* old number builds again, and its record says building.
Clear ==
  /\ build.pc = "clear"
  /\ \/ /\ tree' = [tree EXCEPT ![build.n] = "partial"]
        /\ record' = [record EXCEPT ![build.n] = "building"]
        /\ Step("install")
     \/ /\ DiskFaults
        /\ \/ UNCHANGED <<tree, record>>
           \/ /\ tree' = [tree EXCEPT ![build.n] = "partial"]
              /\ record' = [record EXCEPT ![build.n] = "none"]
        /\ Step("fail")
  /\ rebuilt' = IF record[build.n] = "ready" \/ active = build.n
                THEN rebuilt \cup {build.n} ELSE rebuilt
  /\ UNCHANGED <<active, mount, calls, vertex, unhealed, restarts>>

\* The source is copied and its packages are installed, or a command fails.
Install ==
  /\ build.pc = "install"
  /\ \/ tree' = [tree EXCEPT ![build.n] = "whole"] /\ Step("was")
     \/ Step("fail") /\ UNCHANGED tree
  /\ UNCHANGED <<record, active, mount, calls, vertex, history>>

ReadActive ==
  /\ build.pc = "was"
  /\ build' = [build EXCEPT !.was = active, !.pc = Following("was")]
  /\ UNCHANGED <<files, calls, vertex, history>>

Point ==
  /\ build.pc = "point"
  /\ active' = build.n
  /\ Step(Following("point"))
  /\ UNCHANGED <<record, tree, mount, calls, vertex, history>>

Mount ==
  /\ build.pc = "mount"
  /\ mount' = "this"
  /\ Step(Following("mount"))
  /\ UNCHANGED <<record, tree, active, calls, vertex, history>>

\* The record is the build's last word.
RecordReady ==
  /\ build.pc = "record"
  /\ record' = [record EXCEPT ![build.n] = "ready"]
  /\ build' = IF Following("record") = "none" THEN NoBuild
              ELSE [build EXCEPT !.pc = Following("record")]
  /\ UNCHANGED <<tree, active, mount, calls, vertex, history>>

\* One of the last steps fails: what was active is made active again.
LastStepFails ==
  /\ DiskFaults
  /\ build.pc \in {"point", "mount", "record"}
  /\ Step("undo")
  /\ UNCHANGED <<files, calls, vertex, history>>

Undo ==
  /\ build.pc = "undo"
  /\ \/ active' = ActiveBefore /\ UNCHANGED unhealed
     \/ DiskFaults /\ unhealed' = unhealed \cup {build.n} /\ UNCHANGED active
  /\ Step("fail")
  /\ UNCHANGED <<record, tree, mount, calls, vertex, rebuilt, restarts>>

\* The record says why; a write of it that fails is passed over.
Fail ==
  /\ build.pc = "fail"
  /\ \/ record' = [record EXCEPT ![build.n] = Failed]
     \/ DiskFaults /\ UNCHANGED record
  /\ build' = NoBuild
  /\ UNCHANGED <<tree, active, mount, calls, vertex, history>>

(* POST activate: the check, the active link, the mount. *)

ActivateRead(a, v) ==
  /\ activator[a].pc = "idle" /\ ~deleted
  /\ activator' = [activator EXCEPT ![a] =
       IF Finished(v) THEN [pc |-> "point", n |-> v] ELSE [pc |-> "done", n |-> None]]
  /\ UNCHANGED <<files, build, builder, deleter, vertex, history>>

ActivatePoint(a) ==
  /\ activator[a].pc = "point"
  /\ active' = activator[a].n
  /\ activator' = [activator EXCEPT ![a].pc = "mount"]
  /\ UNCHANGED <<record, tree, mount, build, builder, deleter, vertex, history>>

ActivateMount(a) ==
  /\ activator[a].pc = "mount"
  /\ mount' = "this"
  /\ status' = IF deleted THEN status ELSE LiveStatus
  /\ activator' = [activator EXCEPT ![a].pc = "done"]
  /\ UNCHANGED <<record, tree, active, build, builder, deleter, deleted, history>>

(* DELETE: the files stay for thirty days; the path goes, then the name. *)

DeleteRead(d) ==
  /\ deleter[d].pc = "idle" /\ ~deleted
  /\ status' = LiveStatus
  /\ deleter' = [deleter EXCEPT ![d].pc = IF LiveStatus = "building" THEN "done" ELSE "unmount"]
  /\ UNCHANGED <<files, build, builder, activator, deleted, history>>

DeleteUnmount(d) ==
  /\ deleter[d].pc = "unmount"
  /\ mount' = IF mount = "this" THEN "none" ELSE mount
  /\ deleter' = [deleter EXCEPT ![d].pc = "mark"]
  /\ UNCHANGED <<record, tree, active, build, builder, activator, vertex, history>>

DeleteMark(d) ==
  /\ deleter[d].pc = "mark"
  /\ deleted' = TRUE
  /\ deleter' = [deleter EXCEPT ![d].pc = "done"]
  /\ UNCHANGED <<files, build, builder, activator, status, history>>

\* The name is free: another environment is built at the same path.
OtherMounts ==
  /\ deleted /\ mount = "none"
  /\ mount' = "other"
  /\ UNCHANGED <<record, tree, active, build, calls, vertex, history>>

(* A turn, and the container. *)

\* resolve: the path is made again if the container lost it.
Resolve ==
  /\ ~deleted /\ active # None /\ mount # "this"
  /\ mount' = "this"
  /\ UNCHANGED <<record, tree, active, build, calls, vertex, history>>

\* Threads and calls end where they are.
Restart ==
  /\ restarts < MaxRestarts
  /\ restarts' = restarts + 1
  /\ build' = NoBuild /\ mount' = "none"
  /\ builder' = [b \in Builder |-> IF builder[b] = Idle THEN Idle ELSE [Idle EXCEPT !.pc = "done"]]
  /\ activator' = [a \in Activator |-> IF activator[a] = Idle THEN Idle ELSE [Idle EXCEPT !.pc = "done"]]
  /\ deleter' = [d \in Deleter |-> IF deleter[d] = Idle THEN Idle ELSE [Idle EXCEPT !.pc = "done"]]
  /\ UNCHANGED <<record, tree, active, vertex, unhealed, rebuilt>>

BuildThread ==
  \/ Clear \/ Install \/ ReadActive \/ Point \/ Mount \/ RecordReady
  \/ LastStepFails \/ Undo \/ Fail

EnvNext ==
  \/ Refresh \/ BuildThread \/ OtherMounts \/ Resolve \/ Restart
  \/ \E b \in Builder : BuildRead(b) \/ BuildPost(b) \/ BuildMark(b)
  \/ \E a \in Activator :
       (\E v \in Version : ActivateRead(a, v)) \/ ActivatePoint(a) \/ ActivateMount(a)
  \/ \E d \in Deleter : DeleteRead(d) \/ DeleteUnmount(d) \/ DeleteMark(d)

EnvSpec == EnvInit /\ [][EnvNext]_envVars

\* A build goes on, each of its commands under BUILD_TIMEOUT, a call that was
\* made goes on, and somebody goes on reading an environment that is building.
Fairness ==
  /\ WF_envVars(BuildThread) /\ WF_envVars(Refresh)
  /\ \A b \in Builder : WF_envVars(BuildPost(b)) /\ WF_envVars(BuildMark(b))

EnvFairSpec == EnvSpec /\ Fairness
-----------------------------------------------------------------------------
EnvTypeOK ==
  /\ record \in [Version -> {"none", "building", "ready", "failed"}]
  /\ tree \in [Version -> {"none", "partial", "whole"}]
  /\ active \in Version \cup {None}
  /\ mount \in {"none", "this", "other"}
  /\ build \in [pc : BuildPc, n : Version \cup {None}, was : Version \cup {None}]
  /\ builder \in [Builder -> [pc : CallPc, n : Version \cup {None}]]
  /\ activator \in [Activator -> [pc : CallPc, n : Version \cup {None}]]
  /\ deleter \in [Deleter -> [pc : CallPc, n : {None}]]
  /\ status \in {"empty", "building", "ready", "failed"} /\ deleted \in BOOLEAN
  /\ unhealed \subseteq Version /\ rebuilt \subseteq Version
  /\ restarts \in 0 .. MaxRestarts

\* What sessions read is sound: whatever fails, restarts, is activated or asked
\* for meanwhile, the active version's tree is all there and its build has not
\* failed, unless putting back the version before it failed too, or a call that
\* had taken its number long before built it again.
ActiveIsWhole ==
  active \notin rebuilt \cup {None} =>
    /\ tree[active] = "whole"
    /\ record[active] # "failed" \/ active \in unhealed

\* No environment says building for ever: the build ends, or a read of the
\* record notices that nothing is building (_as_read).
BuildingEnds == (status = "building" /\ ~deleted) ~> (status # "building" \/ deleted)
=============================================================================
