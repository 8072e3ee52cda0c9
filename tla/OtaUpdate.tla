----------------------------- MODULE OtaUpdate -----------------------------
(***************************************************************************)
(* Software update: internal/ota (ota.go, app.go, sys.go, utils.go, rpc.go)*)
(* and its two callers, the auto-update loop of main.go and the RPCs of    *)
(* ota.go.  An update checks the release server, and for each pending      *)
(* component in turn fetches the signature, downloads the image next to    *)
(* its final name, verifies it and renames it; the system image is then    *)
(* written to the inactive partition by rk_ota.  The device reboots when   *)
(* all of them are in place.                                               *)
(*                                                                         *)
(* Any step may fail, the process may crash and the power may go, at any   *)
(* moment.  What is in memory is lost; what is on disk stays.  An image is *)
(* abstracted to its version, to whether its hash is the one the server    *)
(* announced, and to whether its signature was verified.                   *)
(***************************************************************************)
EXTENDS Integers

CONSTANTS
    MaxVersion,    \* versions are 1..MaxVersion, in semver order
    PreVersions,   \* the versions that are pre-releases
    Requests       \* the update requests of the auto-update loop and of users

App        == "app"
System     == "system"
Components == {App, System}
Versions   == 1..MaxVersion
Any        == 0      \* in a request: the version the server chooses
Absent     == -1     \* in a request: the component is not named

\* UpdateParams; no component named stands for a request of unknown names
\* (an empty request is completed with both components)
Request == [want : [Components -> Versions \cup {Any, Absent}],
            pre : BOOLEAN, reset : BOOLEAN]

ASSUME VersionAssumption == MaxVersion \in Nat \ {0} /\ PreVersions \subseteq Versions
ASSUME RequestAssumption == Requests \subseteq Request

VARIABLES
    \* in memory
    pc,            \* the next step of doUpdate, "idle" while s.mu is free
    comp,          \* the component doUpdate is working on
    request,       \* its UpdateParams
    updating,      \* s.updating
    status,        \* s.componentUpdateStatuses: the marks that outlive an update
    release,       \* ... and what every check overwrites: version, signature URL
    signature,     \* the signature downloaded for comp
    rebootNeeded,  \* s.rebootNeeded
    rebooting,     \* the reboot command has been started
    \* on disk
    unverified,    \* the files *.unverified
    staged,        \* the files appUpdatePath and systemUpdatePath
    slot,          \* the image rk_ota wrote to the inactive partition
    autoUpdate,    \* config.AutoUpdateEnabled
    local,         \* the versions that run
    \* environment and history
    healthy,       \* network, server and power no longer fail; users are gone
    named          \* history: components of which users asked for a version by
                   \* name since the process started

task   == <<comp, request, signature>>
memory == <<pc, task, updating, status, release, rebootNeeded, rebooting>>
disk   == <<unverified, staged, slot, autoUpdate>>
vars   == <<memory, disk, local, healthy, named>>

NoImage  == [version |-> 0, content |-> "none", signed |-> FALSE]
Contents == {"none", "partial", "corrupt", "intact"}
Image    == [version : Versions, content : Contents, signed : BOOLEAN] \cup {NoImage}
NoStatus == [pending |-> FALSE, custom |-> FALSE]
Status   == [pending : BOOLEAN, custom : BOOLEAN]
Unknown  == [c \in Components |-> [version |-> 0, sigUrl |-> FALSE]]
Release  == [version : Versions \cup {0}, sigUrl : BOOLEAN]
Default  == [want |-> [c \in Components |-> Any], pre |-> FALSE, reset |-> FALSE]

Init ==
    /\ pc = "idle"
    /\ comp = App
    /\ request = Default
    /\ updating = FALSE
    /\ status = [c \in Components |-> NoStatus]
    /\ release = Unknown
    /\ signature = "none"
    /\ rebootNeeded = FALSE
    /\ rebooting = FALSE
    /\ unverified = [c \in Components |-> "none"]
    /\ staged = [c \in Components |-> NoImage]
    /\ slot = NoImage
    /\ autoUpdate = TRUE
    /\ local = [c \in Components |-> 1]
    /\ healthy = FALSE
    /\ named = {}

(***************************************************************************)
(* Starting an update, and failing.                                        *)
(***************************************************************************)

\* mutant: doUpdate trusts the mutex and does not look at s.updating
BeginUnguarded(r) ==
    /\ pc = "idle"
    /\ updating' = TRUE
    /\ request' = r
    /\ pc' = "check"
    /\ named' = named \cup {c \in Components : r.want[c] \in Versions}
    /\ UNCHANGED <<comp, signature, status, release, rebootNeeded, rebooting, disk,
                   local, healthy>>

\* mutant: an update that failed half-way must be resumed by hand
BeginOnce(r) ==
    /\ pc = "idle"
    /\ ~updating
    /\ \A c \in Components : ~status[c].pending
    /\ updating' = TRUE
    /\ request' = r
    /\ pc' = "check"
    /\ named' = named \cup {c \in Components : r.want[c] \in Versions}
    /\ UNCHANGED <<comp, signature, status, release, rebootNeeded, rebooting, disk,
                   local, healthy>>

\* TryUpdate and the head of doUpdate: a request that finds the mutex taken
\* or s.updating set is refused
Begin(r) ==
    /\ pc = "idle"
    /\ ~updating
    /\ updating' = TRUE
    /\ request' = r
    /\ pc' = "check"
    /\ named' = named \cup {c \in Components : r.want[c] \in Versions}
    /\ UNCHANGED <<comp, signature, status, release, rebootNeeded, rebooting, disk,
                   local, healthy>>

\* the loop of main.go, while nobody is connected
AutoUpdate ==
    /\ autoUpdate
    /\ \E r \in Requests : r.want = Default.want /\ ~r.reset /\ Begin(r)

\* rpcTryUpdate and rpcTryUpdateComponents
UserUpdate(r) == ~healthy /\ Begin(r)

\* doUpdate returns: its locals are gone and s.mu is free
Return ==
    /\ pc' = "idle"
    /\ comp' = App
    /\ request' = Default
    /\ signature' = "none"

\* mutant: the flag is left to the caller
FailKeepsUpdating ==
    /\ Return
    /\ release' = Unknown
    /\ UNCHANGED updating

\* componentUpdateError and the return
Fail ==
    /\ Return
    /\ release' = Unknown
    /\ updating' = FALSE

\* a request that names no known component, a failed request to the server,
\* a failed system call: nothing else has changed
StepFails ==
    /\ \/ ~healthy /\ pc # "idle"
       \/ pc = "check" /\ \A c \in Components : request.want[c] = Absent
    /\ Fail
    /\ UNCHANGED <<status, rebootNeeded, rebooting, disk, local, healthy, named>>

(***************************************************************************)
(* getUpdateStatus and what doUpdate makes of it.                          *)
(***************************************************************************)

\* remoteMetadataToComponentStatus: an older pending or custom mark stays
Available(c, v) ==
    \/ request.want[c] = Any /\ v > local[c]
    \/ request.want[c] \in Versions /\ v # local[c]

CheckedStatus(c, v) ==
    [pending |-> status[c].pending \/ Available(c, v),
     custom  |-> status[c].custom \/ (request.want[c] \in Versions /\ Available(c, v))]

\* the server answers with the version asked for, or with one of its choice
Answers(remote) ==
    \A c \in Components :
        /\ request.want[c] \in Versions => remote[c].version = request.want[c]
        /\ healthy => /\ remote[c].sigUrl
                      /\ \/ request.want[c] \in Versions
                         \/ remote[c].version = MaxVersion

NextStep(st, todo) ==
    IF \E c \in todo : st[c].pending
    THEN /\ comp' = IF App \in todo /\ st[App].pending THEN App ELSE System
         /\ pc' = "signature"
         /\ UNCHANGED request
         /\ signature' = "none"
    ELSE pc' = "finish" /\ UNCHANGED task

\* "No updates available" ends the update
Check(remote) ==
    /\ pc = "check"
    /\ \E c \in Components : request.want[c] # Absent
    /\ Answers(remote)
    /\ status' = [c \in Components |-> CheckedStatus(c, remote[c].version)]
    /\ IF \E c \in Components : status'[c].pending
       THEN NextStep(status', Components) /\ release' = remote /\ UNCHANGED updating
       ELSE Fail
    /\ UNCHANGED <<rebootNeeded, rebooting, disk, local, healthy, named>>

(***************************************************************************)
(* One component: updateApp and updateSystem.                              *)
(***************************************************************************)

shouldBypassSignatureCheck(c) ==
    \/ status[c].custom
    \/ release[c].version \in PreVersions /\ request.pre

\* downloadComponentSignature
Signature ==
    /\ pc = "signature"
    /\ IF shouldBypassSignatureCheck(comp)
       THEN signature' = "none"
       ELSE /\ release[comp].sigUrl
            /\ signature' \in IF healthy THEN {"valid"} ELSE {"valid", "invalid"}
    /\ pc' = "download"
    /\ UNCHANGED <<comp, request, updating, status, release, rebootNeeded, rebooting,
                   disk, local, healthy, named>>

\* a version without a signature URL is refused
SignatureMissing ==
    /\ pc = "signature"
    /\ ~shouldBypassSignatureCheck(comp)
    /\ ~release[comp].sigUrl
    /\ Fail
    /\ UNCHANGED <<status, rebootNeeded, rebooting, disk, local, healthy, named>>

\* downloadFile: the old files go first, then the new one is created
Download ==
    /\ pc = "download"
    /\ staged' = [staged EXCEPT ![comp] = NoImage]
    /\ \/ /\ unverified' = [unverified EXCEPT ![comp] = "partial"]
          /\ pc' = "transfer"
          /\ UNCHANGED <<task, updating, release>>
       \/ /\ ~healthy
          /\ unverified' \in {unverified, [unverified EXCEPT ![comp] = "none"]}
          /\ Fail
    /\ UNCHANGED <<status, rebootNeeded, rebooting, slot, autoUpdate, local,
                   healthy, named>>

\* the body arrives whole, as announced or not; a failure leaves a part of it
Transfer ==
    /\ pc = "transfer"
    /\ \E content \in IF healthy THEN {"intact"} ELSE {"intact", "corrupt"} :
        unverified' = [unverified EXCEPT ![comp] = content]
    /\ pc' = "verify"
    /\ UNCHANGED <<task, updating, status, release, rebootNeeded, rebooting, staged,
                   slot, autoUpdate, local, healthy, named>>

Verified == unverified[comp] = "intact" /\ signature # "invalid"

Downloaded == [version |-> release[comp].version, content |-> unverified[comp],
               signed |-> signature = "valid"]

\* the app is complete; the system image goes on to rk_ota
AfterVerify ==
    IF comp = App
    THEN NextStep(status, {System}) /\ rebootNeeded' = TRUE
    ELSE pc' = "rk_ota" /\ UNCHANGED <<task, rebootNeeded>>

\* mutant: the file is renamed before its hash is compared
VerifyAfterRename ==
    /\ pc = "verify"
    /\ staged' = [staged EXCEPT ![comp] = Downloaded]
    /\ unverified' = [unverified EXCEPT ![comp] = "none"]
    /\ IF Verified
       THEN AfterVerify /\ UNCHANGED <<updating, release>>
       ELSE Fail /\ UNCHANGED rebootNeeded
    /\ UNCHANGED <<status, rebooting, slot, autoUpdate, local,
                   healthy, named>>

\* verifyFile; os.Chmod may still fail after the rename
Verify ==
    /\ pc = "verify"
    /\ IF Verified
       THEN /\ staged' = [staged EXCEPT ![comp] = Downloaded]
            /\ unverified' = [unverified EXCEPT ![comp] = "none"]
            /\ \/ AfterVerify /\ UNCHANGED <<updating, release>>
               \/ ~healthy /\ Fail /\ UNCHANGED rebootNeeded
       ELSE /\ Fail
            /\ UNCHANGED <<staged, unverified, rebootNeeded>>
    /\ UNCHANGED <<status, rebooting, slot, autoUpdate, local,
                   healthy, named>>

\* rk_ota --misc=update
RkOta ==
    /\ pc = "rk_ota"
    /\ slot' = staged[System]
    /\ rebootNeeded' = TRUE
    /\ pc' = "finish"
    /\ UNCHANGED <<task, updating, status, release, rebooting, unverified, staged,
                   autoUpdate, local, healthy, named>>

(***************************************************************************)
(* The end of doUpdate, and the restart.                                   *)
(***************************************************************************)
Disabled == autoUpdate /\ \A c \in Components : ~status[c].custom

\* a custom version disables auto-update; resetConfig restores the default
Finish ==
    /\ pc = "finish"
    /\ autoUpdate' = IF rebootNeeded THEN Disabled \/ request.reset ELSE autoUpdate
    /\ rebooting' = rebootNeeded
    /\ Return
    /\ UNCHANGED <<updating, status, release, rebootNeeded, unverified, staged, slot,
                   local, healthy, named>>

\* resetConfig or the reboot command fails
FinishFails ==
    /\ ~healthy
    /\ pc = "finish"
    /\ rebootNeeded
    /\ autoUpdate' \in {Disabled, Disabled \/ request.reset}
    /\ Fail
    /\ UNCHANGED <<status, rebootNeeded, rebooting, unverified, staged, slot,
                   local, healthy, named>>

\* NewState: what was in memory is gone
Restart ==
    /\ Return
    /\ updating' = FALSE
    /\ status' = [c \in Components |-> NoStatus]
    /\ release' = Unknown
    /\ rebootNeeded' = FALSE
    /\ rebooting' = FALSE
    /\ named' = {}

\* The device boots: the boot script moves the app image into place, the boot
\* loader starts the partition that rk_ota wrote.  Power may go at any moment.
Boot ==
    /\ rebooting \/ ~healthy
    /\ Restart
    /\ local' = [c \in Components |->
                    IF c = App /\ staged[App] # NoImage THEN staged[App].version
                    ELSE IF c = System /\ slot # NoImage THEN slot.version
                    ELSE local[c]]
    /\ staged' = [staged EXCEPT ![App] = NoImage]
    /\ slot' = NoImage
    /\ UNCHANGED <<unverified, autoUpdate, healthy>>

\* only the process ends and is started again
Crash ==
    /\ ~healthy
    /\ ~rebooting
    /\ Restart
    /\ UNCHANGED <<disk, local, healthy>>

\* rpcSetAutoUpdateState
SetAutoUpdate ==
    /\ ~healthy
    /\ autoUpdate' = ~autoUpdate
    /\ UNCHANGED <<memory, unverified, staged, slot, local, healthy, named>>

GetHealthy ==
    /\ ~healthy
    /\ healthy' = TRUE
    /\ UNCHANGED <<memory, disk, local, named>>

Update ==
    \/ \E remote \in [Components -> [version : Versions, sigUrl : BOOLEAN]] :
        Check(remote)
    \/ Signature
    \/ SignatureMissing
    \/ Download
    \/ Transfer
    \/ Verify
    \/ RkOta
    \/ Finish

Next ==
    \/ AutoUpdate
    \/ \E r \in Requests : UserUpdate(r)
    \/ Update
    \/ StepFails
    \/ FinishFails
    \/ Boot
    \/ Crash
    \/ SetAutoUpdate
    \/ GetHealthy

Spec == Init /\ [][Next]_vars

\* The update goroutine runs, the loop of main.go comes round, a reboot that
\* was started happens.
FairSpec ==
    /\ Spec
    /\ WF_vars(AutoUpdate)
    /\ WF_vars(Update)
    /\ WF_vars(StepFails)
    /\ WF_vars(rebooting /\ Boot)

-----------------------------------------------------------------------------
(***************************************************************************)
(* Properties.                                                             *)
(***************************************************************************)

\* Every variable has its type.
TypeOK ==
    /\ pc \in {"idle", "check", "signature", "download", "transfer", "verify",
               "rk_ota", "finish"}
    /\ comp \in Components
    /\ request \in Request
    /\ updating \in BOOLEAN
    /\ status \in [Components -> Status]
    /\ release \in [Components -> Release]
    /\ signature \in {"none", "valid", "invalid"}
    /\ rebootNeeded \in BOOLEAN
    /\ rebooting \in BOOLEAN
    /\ unverified \in [Components -> Contents]
    /\ staged \in [Components -> Image]
    /\ slot \in Image
    /\ autoUpdate \in BOOLEAN
    /\ local \in [Components -> Versions]
    /\ healthy \in BOOLEAN
    /\ named \subseteq Components

\* What is put where the next boot runs it, the app image under its final name
\* or the system image in the inactive partition, is what the server announced,
\* and its signature was verified, unless it is a pre-release and the request
\* that installs it opted into them, or a user asked for a version of this
\* component by name since the process started: a waiver never outlives the
\* process in which it was given.  No failure, crash or retry between download,
\* verification and rename breaks it.
Bootable(c) == IF c = App THEN staged[App] ELSE slot
Trusted(c, image) ==
    /\ image.content = "intact"
    /\ \/ image.signed
       \/ image.version \in PreVersions /\ request.pre
       \/ c \in named
StagedVerified ==
    [][\A c \in Components :
        Bootable(c)' \notin {Bootable(c), NoImage} => Trusted(c, Bootable(c)')]_vars

\* The updating flag, which refuses every further update, is never left set:
\* an update is running or the device is about to reboot.
NeverStuck == updating => pc # "idle" \/ rebooting

\* When the device reboots for an update, every component that was pending is
\* in place in the version that was announced, and stays there until then.
RebootIsComplete ==
    rebooting => \A c \in Components :
        status[c].pending => Bootable(c).version = release[c].version

\* Whatever failed before, once network, server and power are back and nobody
\* interferes, the auto-update loop brings the device to the newest version,
\* unless auto-update is off.
EventuallyCurrent ==
    healthy ~> ~autoUpdate \/ \A c \in Components : local[c] = MaxVersion

\* An image whose signature was not verified is installed only in the version
\* that the running request names: the bypass "can't be triggered by a
\* compromised server", shouldBypassSignatureCheck says.
WaivedAsAsked ==
    [][\A c \in Components :
        LET image == Bootable(c)' IN
        image \notin {Bootable(c), NoImage} =>
            \/ image.signed
            \/ image.version \in PreVersions /\ request.pre
            \/ request.want[c] = image.version]_vars

\* An image is put in place only for a component that the running request
\* named.
OnlyRequested ==
    [][\A c \in Components :
        staged'[c] \notin {staged[c], NoImage} => request.want[c] # Absent]_vars
=============================================================================
