-------------------------- MODULE OtaUpdateProofs --------------------------
(***************************************************************************)
(* Proofs about OtaUpdate, for every number of versions, every set of      *)
(* pre-releases and every set of requests.                                 *)
(***************************************************************************)
EXTENDS OtaUpdate, TLAPS

\* While doUpdate works on a component, or is past them, it knows the versions
\* that the server announced.
Working == {"signature", "download", "transfer", "verify", "rk_ota", "finish"}
Announced ==
    pc \in Working => \A c \in Components : release[c].version \in Versions

\* A step of an update, a failure, a restart or a change of the environment
\* keeps every variable within its type.
LEMMA TypeStep == TypeOK /\ Announced /\ [Next]_vars => TypeOK'
<1> SUFFICES ASSUME TypeOK, Announced, [Next]_vars PROVE TypeOK'
  OBVIOUS
<1> USE VersionAssumption, RequestAssumption
<1> USE DEF TypeOK, Components, App, System
<1>d. Default \in Request /\ NoImage \in Image /\ NoStatus \in Status
      /\ Unknown \in [Components -> Release]
  BY DEF Default, Request, NoImage, Image, Contents, NoStatus, Status, Unknown,
         Release, Any
<1>0. CASE UNCHANGED vars
  BY <1>0 DEF vars, memory, task, disk
<1>b. ASSUME NEW r \in Requests, Begin(r) PROVE TypeOK'
  BY <1>b DEF Begin, disk
<1>1. CASE AutoUpdate
  BY <1>1, <1>b DEF AutoUpdate
<1>2. CASE \E r \in Requests : UserUpdate(r)
  BY <1>2, <1>b DEF UserUpdate
<1>f. ASSUME Fail
      PROVE  /\ pc' = "idle" /\ comp' \in Components /\ request' \in Request
             /\ signature' = "none" /\ updating' = FALSE
             /\ release' \in [Components -> Release]
  BY <1>f, <1>d DEF Fail, Return
<1>3. CASE StepFails
  BY <1>3, <1>f DEF StepFails, disk
<1>n. ASSUME NEW st, NEW todo, NextStep(st, todo)
      PROVE  /\ pc' \in {"signature", "finish"} /\ comp' \in Components
             /\ request' = request /\ signature' \in {"none", "valid", "invalid"}
  BY <1>n DEF NextStep, task
<1>4. ASSUME NEW remote \in [Components -> [version : Versions, sigUrl : BOOLEAN]],
             Check(remote)
      PROVE TypeOK'
  <2>1. status' \in [Components -> Status]
    BY <1>4 DEF Check, CheckedStatus, Available, Status
  <2>2. remote \in [Components -> Release]
    BY DEF Release
  <2>3. CASE \E c \in Components : status'[c].pending
    BY <1>4, <2>1, <2>2, <2>3, <1>n DEF Check, disk
  <2>4. CASE ~ \E c \in Components : status'[c].pending
    BY <1>4, <2>1, <2>4, <1>f DEF Check, disk
  <2> QED
    BY <2>3, <2>4
<1>5. CASE Signature
  BY <1>5 DEF Signature, disk
<1>6. CASE SignatureMissing
  BY <1>6, <1>f DEF SignatureMissing, disk
<1>7. CASE Download
  <2>1. staged' \in [Components -> Image]
    BY <1>7, <1>d DEF Download
  <2>2. unverified' \in [Components -> Contents]
    BY <1>7 DEF Download, Contents
  <2>3. CASE pc' = "transfer" /\ UNCHANGED <<task, updating, release>>
    BY <1>7, <2>1, <2>2, <2>3 DEF Download, task
  <2>4. CASE Fail
    BY <1>7, <2>1, <2>2, <2>4, <1>f DEF Download
  <2> QED
    BY <1>7, <2>3, <2>4 DEF Download
<1>8. CASE Transfer
  <2>1. unverified' \in [Components -> Contents]
    BY <1>8 DEF Transfer, Contents
  <2> QED
    BY <1>8, <2>1 DEF Transfer, task
<1>9. CASE Verify
  <2>1. /\ staged' \in [Components -> Image]
        /\ unverified' \in [Components -> Contents]
    <3>1. release[comp].version \in Versions /\ unverified[comp] \in Contents
      BY <1>9 DEF Verify, Announced, Working
    <3>2. Downloaded \in Image
      BY <3>1 DEF Downloaded, Image
    <3>3. "none" \in Contents
      BY DEF Contents
    <3>4. CASE Verified
      BY <1>9, <3>2, <3>3, <3>4 DEF Verify
    <3>5. CASE ~Verified
      BY <1>9, <3>5 DEF Verify
    <3> QED
      BY <3>4, <3>5
  <2>2. CASE AfterVerify /\ UNCHANGED <<updating, release>>
    <3>1. CASE comp = App
      BY <1>9, <2>1, <2>2, <3>1, <1>n DEF Verify, AfterVerify
    <3>2. CASE comp # App
      BY <1>9, <2>1, <2>2, <3>2 DEF Verify, AfterVerify, task
    <3> QED
      BY <3>1, <3>2
  <2>3. CASE Fail /\ UNCHANGED rebootNeeded
    BY <1>9, <2>1, <2>3, <1>f DEF Verify
  <2> QED
    BY <1>9, <2>2, <2>3 DEF Verify
<1>10. CASE RkOta
  BY <1>10 DEF RkOta, task
<1>11. CASE Finish
  BY <1>11, <1>d DEF Finish, Return, Disabled, Request
<1>12. CASE FinishFails
  BY <1>12, <1>f DEF FinishFails, Disabled, Request
<1>r. ASSUME Restart
      PROVE  /\ pc' = "idle" /\ comp' \in Components /\ request' \in Request
             /\ signature' = "none" /\ updating' = FALSE
             /\ release' \in [Components -> Release]
             /\ status' \in [Components -> Status]
             /\ rebootNeeded' = FALSE /\ rebooting' = FALSE /\ named' \subseteq Components
  BY <1>r, <1>d DEF Restart, Return
<1>13. CASE Boot
  <2>1. staged' \in [Components -> Image] /\ slot' \in Image
    BY <1>13, <1>d DEF Boot
  <2>2. local' \in [Components -> Versions]
    <3>1. \A i \in Image : i # NoImage => i.version \in Versions
      BY DEF Image
    <3> QED
      BY <1>13, <3>1 DEF Boot
  <2> QED
    BY <1>13, <1>r, <2>1, <2>2 DEF Boot
<1>14. CASE Crash
  BY <1>14, <1>r DEF Crash, disk
<1>15. CASE SetAutoUpdate
  BY <1>15 DEF SetAutoUpdate, memory, task
<1>16. CASE GetHealthy
  BY <1>16 DEF GetHealthy, memory, task, disk
<1> QED
  BY <1>0, <1>1, <1>2, <1>3, <1>4, <1>5, <1>6, <1>7, <1>8, <1>9, <1>10, <1>11,
     <1>12, <1>13, <1>14, <1>15, <1>16 DEF Next, Update

\* Every step keeps Announced: a check that goes on stores the server's answer,
\* and every return forgets it.
LEMMA AnnouncedStep == TypeOK /\ Announced /\ [Next]_vars => Announced'
<1> SUFFICES ASSUME TypeOK, Announced, [Next]_vars PROVE Announced'
  OBVIOUS
<1> USE DEF Announced, Working
<1>u. ASSUME UNCHANGED release, pc \in Working PROVE Announced'
  BY <1>u
<1>i. ASSUME pc' \in {"idle", "check"} PROVE Announced'
  BY <1>i
<1>f. ASSUME Fail PROVE Announced'
  BY <1>f, <1>i DEF Fail, Return
<1>0. CASE UNCHANGED vars
  BY <1>0 DEF vars, memory
<1>1. CASE AutoUpdate \/ \E r \in Requests : UserUpdate(r)
  BY <1>1, <1>i DEF AutoUpdate, UserUpdate, Begin
<1>2. CASE StepFails \/ SignatureMissing \/ FinishFails
  BY <1>2, <1>f DEF StepFails, SignatureMissing, FinishFails
<1>3. ASSUME NEW remote \in [Components -> [version : Versions, sigUrl : BOOLEAN]],
             Check(remote)
      PROVE Announced'
  <2>1. CASE release' = remote
    BY <2>1
  <2>2. CASE Fail
    BY <2>2, <1>f
  <2> QED
    BY <1>3, <2>1, <2>2 DEF Check
<1>4. CASE Signature \/ Transfer \/ RkOta
  BY <1>4, <1>u DEF Signature, Transfer, RkOta
<1>5. CASE Download
  BY <1>5, <1>u, <1>f DEF Download
<1>6. CASE Verify
  BY <1>6, <1>u, <1>f DEF Verify
<1>7. CASE Finish \/ Boot \/ Crash
  BY <1>7, <1>i DEF Finish, Boot, Crash, Restart, Return
<1>8. CASE SetAutoUpdate \/ GetHealthy
  BY <1>8 DEF SetAutoUpdate, GetHealthy, memory
<1> QED
  BY <1>0, <1>1, <1>2, <1>3, <1>4, <1>5, <1>6, <1>7, <1>8 DEF Next, Update

\* The state that NewState leaves is of the right type.
LEMMA TypeInit == Init => TypeOK /\ Announced
<1>d. /\ Default \in Request /\ NoImage \in Image /\ NoStatus \in Status
      /\ Unknown \in [Components -> Release]
      /\ 1 \in Versions /\ "none" \in Contents /\ App \in Components
  BY VersionAssumption
     DEF Default, Request, NoImage, Image, Contents, NoStatus, Status, Unknown,
         Release, Any, Versions, Components
<1> QED
  BY <1>d DEF Init, TypeOK, Announced, Working

\* Type correctness of the update, for every number of versions and every set
\* of requests: no failure, crash or retry leaves doUpdate, the statuses or the
\* files in a shape the code does not expect.
THEOREM TypeCorrect == Spec => []TypeOK
<1>1. TypeOK /\ Announced /\ [Next]_vars => (TypeOK /\ Announced)'
  BY TypeStep, AnnouncedStep
<1> QED
  BY <1>1, TypeInit, PTL DEF Spec

-----------------------------------------------------------------------------
(***************************************************************************)
(* The updating flag.  NeverStuck is not inductive: the end of doUpdate    *)
(* leaves the flag set and relies on rebootNeeded.  FinishReboots says that*)
(* it may: doUpdate gets there only after a component has been installed.  *)
(***************************************************************************)
FinishReboots == pc = "finish" => rebootNeeded
FlagInv == FinishReboots /\ NeverStuck

\* Every step keeps the flag honest: each return of doUpdate clears it or
\* follows a reboot command.
LEMMA FlagStep == FlagInv /\ [Next]_vars => FlagInv'
<1> SUFFICES ASSUME FlagInv, [Next]_vars PROVE FlagInv'
  OBVIOUS
<1> USE DEF FlagInv, FinishReboots, NeverStuck
<1>f. ASSUME Fail PROVE FlagInv'
  BY <1>f DEF Fail, Return
<1>0. CASE UNCHANGED vars
  BY <1>0 DEF vars, memory
<1>1. CASE AutoUpdate \/ \E r \in Requests : UserUpdate(r)
  BY <1>1 DEF AutoUpdate, UserUpdate, Begin
<1>2. CASE StepFails \/ SignatureMissing \/ FinishFails
  BY <1>2, <1>f DEF StepFails, SignatureMissing, FinishFails
<1>3. ASSUME NEW remote, Check(remote) PROVE FlagInv'
  <2>1. CASE \E c \in Components : status'[c].pending
    BY <1>3, <2>1 DEF Check, NextStep
  <2>2. CASE ~ \E c \in Components : status'[c].pending
    BY <1>3, <2>2, <1>f DEF Check
  <2> QED
    BY <2>1, <2>2
<1>4. CASE Signature \/ Transfer \/ RkOta
  BY <1>4 DEF Signature, Transfer, RkOta
<1>5. CASE Download
  BY <1>5, <1>f DEF Download
<1>6. CASE Verify
  <2>1. CASE AfterVerify
    BY <2>1 DEF AfterVerify, NextStep
  <2> QED
    BY <1>6, <2>1, <1>f DEF Verify
<1>7. CASE Finish
  BY <1>7 DEF Finish, Return
<1>8. CASE Boot \/ Crash
  BY <1>8 DEF Boot, Crash, Restart, Return
<1>9. CASE SetAutoUpdate \/ GetHealthy
  BY <1>9 DEF SetAutoUpdate, GetHealthy, memory
<1> QED
  BY <1>0, <1>1, <1>2, <1>3, <1>4, <1>5, <1>6, <1>7, <1>8, <1>9 DEF Next, Update

\* The updating flag is never left set with no update running and no reboot on
\* its way, so a failed update never blocks the next one.
THEOREM FlagIsReleased == Spec => []NeverStuck
<1>1. Init => FlagInv
  BY DEF Init, FlagInv, FinishReboots, NeverStuck
<1>2. FlagInv => NeverStuck
  BY DEF FlagInv
<1> QED
  BY <1>1, <1>2, FlagStep, PTL DEF Spec

-----------------------------------------------------------------------------
(***************************************************************************)
(* Verified images.  An unsigned image needs a reason: the marks that make *)
(* shouldBypassSignatureCheck true come from requests to this process      *)
(* (Reasons), and a download that has no signature passed that test        *)
(* (Waived).  The system image is trusted as a file when rk_ota copies it. *)
(***************************************************************************)
Reasons ==
    /\ \A c \in Components : status[c].custom => c \in named
    /\ \A c \in Components : request.want[c] \in Versions => c \in named
Waived ==
    pc \in {"download", "transfer", "verify"} /\ signature = "none"
        => shouldBypassSignatureCheck(comp)
FileTrusted == pc = "rk_ota" => Trusted(System, staged[System])
Safe == Reasons /\ Waived /\ FileTrusted

\* An intact file whose signature was checked, or rightly not asked for, is
\* trusted.
LEMMA DownloadedTrusted ==
    TypeOK /\ Safe /\ pc = "verify" /\ Verified => Trusted(comp, Downloaded)
<1> SUFFICES ASSUME TypeOK, Safe, pc = "verify", Verified
             PROVE  Trusted(comp, Downloaded)
  OBVIOUS
<1>1. signature = "valid" \/ shouldBypassSignatureCheck(comp)
  BY DEF Verified, Safe, Waived, TypeOK
<1>2. shouldBypassSignatureCheck(comp) =>
         comp \in named \/ (release[comp].version \in PreVersions /\ request.pre)
  BY DEF shouldBypassSignatureCheck, Safe, Reasons, TypeOK
<1> QED
  BY <1>1, <1>2 DEF Trusted, Downloaded, Verified

\* Every step keeps the reasons: a mark is set for a request that named the
\* component, and a restart forgets marks and requests together.
LEMMA SafeStep == TypeOK /\ Safe /\ [Next]_vars => Safe'
<1> SUFFICES ASSUME TypeOK, Safe, [Next]_vars PROVE Safe'
  OBVIOUS
<1> USE VersionAssumption, RequestAssumption
<1> DEFINE Same == UNCHANGED <<status, release, request, signature, comp, named>>
<1>d. \A c \in Components : Default.want[c] \notin Versions
  BY DEF Default, Versions, Any
<1>i. ASSUME pc' = "idle", request' = Default, UNCHANGED <<status, named>> PROVE Safe'
  BY <1>i, <1>d DEF Safe, Reasons, Waived, FileTrusted
<1>s. ASSUME Same, pc \in {"download", "transfer", "verify"}, pc' # "rk_ota" PROVE Safe'
  BY <1>s DEF Safe, Reasons, Waived, shouldBypassSignatureCheck, FileTrusted
<1>f. ASSUME Fail, UNCHANGED <<status, named>> PROVE Safe'
  BY <1>f, <1>i DEF Fail, Return
<1>0. CASE UNCHANGED vars
  BY <1>0 DEF vars, memory, task, disk, Safe, Reasons, Waived, FileTrusted,
              shouldBypassSignatureCheck, Trusted
<1>b. ASSUME NEW r \in Requests, Begin(r) PROVE Safe'
  BY <1>b DEF Begin, Safe, Reasons, Waived, FileTrusted
<1>1. CASE AutoUpdate \/ \E r \in Requests : UserUpdate(r)
  BY <1>1, <1>b DEF AutoUpdate, UserUpdate
<1>2. CASE StepFails \/ SignatureMissing \/ FinishFails
  BY <1>2, <1>f DEF StepFails, SignatureMissing, FinishFails
<1>3. ASSUME NEW remote, Check(remote) PROVE Safe'
  <2>1. \A c \in Components : status'[c].custom => c \in named'
    BY <1>3 DEF Check, CheckedStatus, Safe, Reasons
  <2>2. CASE \E c \in Components : status'[c].pending
    <3>1. pc' = "signature" /\ request' = request
      BY <1>3, <2>2 DEF Check, NextStep
    <3> QED
      BY <1>3, <2>1, <3>1 DEF Check, Safe, Reasons, Waived, FileTrusted
  <2>3. CASE Fail
    BY <1>3, <2>1, <2>3, <1>d DEF Check, Fail, Return, Safe, Reasons, Waived, FileTrusted
  <2> QED
    BY <1>3, <2>2, <2>3 DEF Check
<1>4. CASE Signature
  BY <1>4 DEF Signature, Safe, Reasons, Waived, FileTrusted, shouldBypassSignatureCheck
<1>5. CASE Download
  <2>1. CASE Fail
    BY <1>5, <2>1, <1>f DEF Download
  <2>2. CASE UNCHANGED <<task, updating, release>> /\ pc' = "transfer"
    BY <1>5, <2>2, <1>s DEF Download, task
  <2> QED
    BY <1>5, <2>1, <2>2 DEF Download
<1>6. CASE Transfer
  BY <1>6, <1>s DEF Transfer, task
<1>7. CASE Verify
  <2>1. CASE Fail
    BY <1>7, <2>1, <1>f DEF Verify
  <2>2. CASE Verified /\ AfterVerify /\ UNCHANGED <<updating, release>>
    <3>1. request' = request /\ UNCHANGED <<status, named>>
      BY <1>7, <2>2 DEF Verify, AfterVerify, NextStep, task
    <3>2. CASE comp = App
      <4>1. pc' \in {"signature", "finish"}
        BY <2>2, <3>2 DEF AfterVerify, NextStep
      <4> QED
        BY <3>1, <4>1 DEF Safe, Reasons, Waived, FileTrusted
    <3>3. CASE comp = System
      <4>1. pc' = "rk_ota" /\ staged'[System] = Downloaded
        BY <1>7, <2>2, <3>3 DEF Verify, AfterVerify, TypeOK, App, System
      <4>2. Trusted(System, Downloaded)
        BY <1>7, <2>2, <3>3, DownloadedTrusted DEF Verify
      <4>3. FileTrusted'
        BY <3>1, <4>1, <4>2 DEF FileTrusted, Trusted
      <4> QED
        BY <3>1, <4>1, <4>3 DEF Safe, Reasons, Waived
    <3> QED
      BY <3>2, <3>3 DEF TypeOK, Components
  <2> QED
    BY <1>7, <2>1, <2>2 DEF Verify
<1>8. CASE RkOta
  BY <1>8 DEF RkOta, task, Safe, Reasons, Waived, FileTrusted
<1>9. CASE Finish
  BY <1>9, <1>i DEF Finish, Return
<1>10. CASE Boot \/ Crash
  BY <1>10, <1>d DEF Boot, Crash, Restart, Return, NoStatus, Safe, Reasons, Waived,
                     FileTrusted
<1>11. CASE SetAutoUpdate \/ GetHealthy
  BY <1>11 DEF SetAutoUpdate, GetHealthy, memory, task, disk, Safe, Reasons, Waived,
               FileTrusted, shouldBypassSignatureCheck, Trusted
<1> QED
  BY <1>0, <1>1, <1>2, <1>3, <1>4, <1>5, <1>6, <1>7, <1>8, <1>9, <1>10, <1>11
     DEF Next, Update

\* What one step may put where the next boot runs it.
Installs(c) == Bootable(c)' \notin {Bootable(c), NoImage} => Trusted(c, Bootable(c)')

\* Only Verify gives the app its final name and only rk_ota writes the inactive
\* partition; every other step leaves what is bootable alone or removes it.
LEMMA InstallStep ==
    TypeOK /\ Safe /\ [Next]_vars => \A c \in Components : Installs(c)
<1> SUFFICES ASSUME TypeOK, Safe, [Next]_vars, NEW c \in Components PROVE Installs(c)
  OBVIOUS
<1> DEFINE Kept == staged'[App] \in {staged[App], NoImage} /\ slot' \in {slot, NoImage}
<1>k. ASSUME Kept PROVE Installs(c)
  BY <1>k DEF Installs, Bootable
<1>0. CASE UNCHANGED vars
  BY <1>0, <1>k DEF vars, disk
<1>1. CASE AutoUpdate \/ \E r \in Requests : UserUpdate(r)
  BY <1>1, <1>k DEF AutoUpdate, UserUpdate, Begin, disk
<1>2. CASE StepFails \/ SignatureMissing \/ FinishFails
  BY <1>2, <1>k DEF StepFails, SignatureMissing, FinishFails, disk
<1>3. ASSUME NEW remote, Check(remote) PROVE Installs(c)
  BY <1>3, <1>k DEF Check, disk
<1>4. CASE Signature \/ Transfer \/ Finish
  BY <1>4, <1>k DEF Signature, Transfer, Finish, disk
<1>5. CASE Download \/ Boot
  BY <1>5, <1>k DEF Download, Boot, TypeOK, Components
<1>6. CASE Verify
  <2>1. CASE Verified /\ comp = App
    <3>1. staged'[App] = Downloaded /\ slot' = slot
      BY <1>6, <2>1 DEF Verify, TypeOK
    <3> QED
      BY <1>6, <2>1, <3>1, DownloadedTrusted DEF Verify, Installs, Bootable
  <2>2. CASE ~(Verified /\ comp = App)
    BY <1>6, <2>2, <1>k DEF Verify, TypeOK, Components, App, System
  <2> QED
    BY <2>1, <2>2
<1>7. CASE RkOta
  BY <1>7 DEF RkOta, Safe, FileTrusted, Installs, Bootable, Components
<1>8. CASE Crash \/ SetAutoUpdate \/ GetHealthy
  BY <1>8, <1>k DEF Crash, SetAutoUpdate, GetHealthy, disk
<1> QED
  BY <1>0, <1>1, <1>2, <1>3, <1>4, <1>5, <1>6, <1>7, <1>8 DEF Next, Update

\* Whatever fails, crashes or is retried, an image that is put where the next boot
\* runs it has the announced hash, and a verified signature unless its request
\* opted into pre-releases or a user named a version of the component since the
\* process started: verifyFile is the only way to the final name, and no waiver
\* survives a restart.
THEOREM OnlyVerifiedBoots == Spec => StagedVerified
<1>1. Init => Safe
  BY DEF Init, Safe, Reasons, Waived, FileTrusted, Default, Any, Versions, NoStatus
<1>2. TypeOK /\ Safe /\ [Next]_vars =>
        [\A c \in Components :
            Bootable(c)' \notin {Bootable(c), NoImage} => Trusted(c, Bootable(c)')]_vars
  BY InstallStep DEF Installs
<1> QED
  BY TypeCorrect, <1>1, <1>2, SafeStep, PTL DEF Spec, StagedVerified
-----------------------------------------------------------------------------
(***************************************************************************)
(* The order of the components.  doUpdate reaches the system component     *)
(* only with the app in place, and its end only with both in place; the    *)
(* flag keeps it so until the reboot.                                      *)
(***************************************************************************)
Done(c) == status[c].pending => Bootable(c).version = release[c].version
Steps   == {"signature", "download", "transfer", "verify", "rk_ota"}
OrderInv ==
    /\ rebooting => pc = "idle"
    /\ pc # "idle" \/ rebooting => updating
    /\ (pc \in Steps /\ comp = System) \/ pc = "finish" \/ rebooting => Done(App)
    /\ pc = "finish" \/ rebooting => Done(System)
    /\ pc = "rk_ota" => /\ comp = System
                       /\ staged[System].version = release[System].version

\* Every step keeps the order: a component is left only when its image is in
\* place, and every other way out of doUpdate ends the attempt.
LEMMA OrderStep == TypeOK /\ OrderInv /\ [Next]_vars => OrderInv'
<1> SUFFICES ASSUME TypeOK, OrderInv, [Next]_vars PROVE OrderInv'
  OBVIOUS
<1> USE DEF OrderInv, Steps, App, System
<1>i. ASSUME pc' \in {"idle", "check"}, ~rebooting', pc' = "check" => updating'
      PROVE  OrderInv'
  BY <1>i
<1>f. ASSUME Fail, pc # "idle", UNCHANGED rebooting PROVE OrderInv'
  BY <1>f, <1>i DEF Fail, Return
<1>0. CASE UNCHANGED vars
  BY <1>0 DEF vars, memory, task, disk, Done, Bootable
<1>1. CASE AutoUpdate \/ \E r \in Requests : UserUpdate(r)
  BY <1>1, <1>i DEF AutoUpdate, UserUpdate, Begin
<1>2. CASE StepFails \/ SignatureMissing \/ FinishFails
  BY <1>2, <1>f DEF StepFails, SignatureMissing, FinishFails
<1>3. ASSUME NEW remote, Check(remote) PROVE OrderInv'
  <2>1. CASE Fail
    BY <1>3, <2>1, <1>f DEF Check
  <2>2. CASE /\ NextStep(status', Components) /\ UNCHANGED updating
             /\ \E c \in Components : status'[c].pending
    <3>1. /\ pc' = "signature" /\ ~rebooting' /\ updating'
          /\ comp' = System => ~status'[App].pending
      BY <1>3, <2>2 DEF Check, NextStep, Components
    <3> QED
      BY <3>1 DEF Done
  <2> QED
    BY <1>3, <2>1, <2>2 DEF Check
<1>4. CASE Signature
  BY <1>4 DEF Signature, disk, Done, Bootable
<1>5. CASE Download
  <2>1. CASE Fail
    BY <1>5, <2>1, <1>f DEF Download
  <2>2. CASE UNCHANGED <<task, updating, release>> /\ pc' = "transfer"
    BY <1>5, <2>2 DEF Download, task, Done, Bootable, TypeOK
  <2> QED
    BY <1>5, <2>1, <2>2 DEF Download
<1>6. CASE Transfer
  BY <1>6 DEF Transfer, task, Done, Bootable
<1>7. CASE Verify
  <2>1. CASE Fail
    BY <1>7, <2>1, <1>f DEF Verify
  <2>2. CASE Verified /\ AfterVerify /\ UNCHANGED <<updating, release>>
    <3>1. /\ staged'[comp].version = release'[comp].version
          /\ \A c \in Components : c # comp => staged'[c] = staged[c]
          /\ status' = status /\ slot' = slot /\ rebooting' = FALSE /\ updating'
      BY <1>7, <2>2 DEF Verify, Downloaded, TypeOK
    <3>2. CASE comp = App
      <4>1. Done(App)'
        BY <3>1, <3>2 DEF Done, Bootable
      <4>2. CASE status[System].pending
        BY <2>2, <3>1, <3>2, <4>1, <4>2 DEF AfterVerify, NextStep
      <4>3. CASE ~status[System].pending
        <5>1. pc' = "finish" /\ Done(System)'
          BY <2>2, <3>1, <3>2, <4>3 DEF AfterVerify, NextStep, Done
        <5> QED
          BY <3>1, <4>1, <5>1
      <4> QED
        BY <4>2, <4>3
    <3>3. CASE comp = System
      BY <1>7, <2>2, <3>1, <3>3 DEF Verify, AfterVerify, task, Done, Bootable, Components
    <3> QED
      BY <3>2, <3>3 DEF TypeOK, Components
  <2> QED
    BY <1>7, <2>1, <2>2 DEF Verify
<1>8. CASE RkOta
  BY <1>8 DEF RkOta, task, Done, Bootable
<1>9. CASE Finish
  <2>1. Done(App)' /\ Done(System)'
    BY <1>9 DEF Finish, Done, Bootable
  <2>2. pc' = "idle" /\ updating'
    BY <1>9 DEF Finish, Return
  <2> QED
    BY <2>1, <2>2
<1>10. CASE Boot \/ Crash
  BY <1>10, <1>i DEF Boot, Crash, Restart, Return
<1>11. CASE SetAutoUpdate \/ GetHealthy
  BY <1>11 DEF SetAutoUpdate, GetHealthy, memory, task, disk, Done, Bootable
<1> QED
  BY <1>0, <1>1, <1>2, <1>3, <1>4, <1>5, <1>6, <1>7, <1>8, <1>9, <1>10, <1>11
     DEF Next, Update

\* When the device reboots for an update, every pending component is in place in
\* the announced version: neither a failure in the middle, nor a second request
\* in the seconds before the reboot, leaves it with half an update.
THEOREM RebootsComplete == Spec => []RebootIsComplete
<1>1. Init => OrderInv
  BY DEF Init, OrderInv, Steps
<1>2. OrderInv => RebootIsComplete
  BY DEF OrderInv, RebootIsComplete, Done, Components
<1> QED
  BY TypeCorrect, <1>1, <1>2, OrderStep, PTL DEF Spec
=============================================================================
