----------------------------- MODULE SamplesProofs -----------------------------
(***************************************************************************)
(* Theorems about Samples, for any calls, ends and number of crashes.      *)
(***************************************************************************)
EXTENDS Samples, TLAPS

(* What is known of a call from where it is: before its outcome is known it*)
(* has published nothing, and while it promotes its staging directory is   *)
(* complete.                                                               *)
Early == { "new", "lookup", "load", "source", "extract" }
Promoting == { "check", "supersede", "promote", "replace" }
Failing == { "mkdir", "tmp", "write" }
Staged(m, c) == [manifest |-> m, parts |-> {c}, tmp |-> {}]

CallInv(c) ==
  /\ pc[c] \in Early \cup {"work"} => made[c] = "none"
  /\ pc[c] \in Promoting \cup {"assemble"} => made[c] = "completed"
  /\ pc[c] \in Failing => made[c] = "failed"
  /\ pc[c] = "record" => made[c] = "environment"
  /\ pc[c] \in {"check", "supersede"} => forced[c]
  /\ pc[c] \in {"extract", "work"} \/ (named[c] /\ made[c] # "none") => source
  /\ returned[c] # None => made[returned[c]] # "none"

StagingInv(c) ==
  /\ staging[c] \in {None, Staged(None, c), Staged(c, c)}
  /\ pc[c] \in Promoting => staging[c] = Staged(c, c)
  /\ pc[c] \in {"work", "assemble"} => staging[c] # None
  /\ pc[c] \in Early \cup Failing \cup {"record", "done", "raised"} => staging[c] = None

(* A directory with a manifest: the one of a completed call stands beside  *)
(* the artifacts of that call.                                             *)
DirInv ==
  \A d \in Directories :
    d.manifest # None =>
      /\ made[d.manifest] \in {"completed", "failed"}
      /\ made[d.manifest] = "completed" => d.parts = {d.manifest}

(* As long as nobody forces or fails, the sample is absent or completed,   *)
(* and it is not absent once a call has answered "completed".              *)
QuietInv ==
  Quiet =>
    /\ dir # None => dir.manifest # None /\ made[dir.manifest] = "completed"
    /\ \A c \in Call : returned[c] # None /\ made[returned[c]] = "completed" => dir # None

Inv == TypeOK /\ (\A c \in Call : CallInv(c) /\ StagingInv(c)) /\ DirInv /\ QuietInv

(* A staging directory is a directory.                                     *)
LEMMA StagedIsDirectory ==
  ASSUME NEW c \in Call, NEW m \in Call \cup {None}
  PROVE  /\ Staged(m, c) \in Directory
         /\ Staged(m, c) # None
         /\ Staged(m, c).manifest = m /\ Staged(m, c).parts = {c}
         /\ (m # None => Staged(m, c) # Staged(None, c))
BY NoneAssumption DEF Staged, Directory

(* The os.replace of a failure manifest changes the manifest only.         *)
LEMMA FailureIsDirectory ==
  ASSUME NEW c \in Call, NEW d \in Directory, NEW e, e = [d EXCEPT !.tmp = @ \ {c}, !.manifest = c]
  PROVE  e \in Directory /\ e.manifest = c /\ e.parts = d.parts
BY DEF Directory

(* The empty store satisfies it.                                           *)
LEMMA InitInv == Init => Inv
<1> SUFFICES ASSUME Init PROVE Inv
  OBVIOUS
<1>1. TypeOK
  BY CallAssumption DEF Init, TypeOK, Running
<1>2. \A c \in Call : CallInv(c) /\ StagingInv(c)
  BY DEF Init, CallInv, StagingInv, Early, Promoting, Failing
<1>3. DirInv /\ QuietInv
  BY DEF Init, DirInv, QuietInv, Directories, Quiet
<1>. QED
  BY <1>1, <1>2, <1>3 DEF Inv

(* Every step of a call, and its death, keeps it.                          *)
LEMMA NextInv == Inv /\ [Next]_vars => Inv'
<1> SUFFICES ASSUME Inv, [Next]_vars PROVE Inv'
  OBVIOUS
<1> USE CallAssumption DEF At, Goto
<1>1. ASSUME NEW c \in Call, Begin(c) PROVE Inv'
  <2>1. TypeOK'
    BY <1>1 DEF Inv, TypeOK, Begin, RecordOf, Running, Directory, EmptyDir, StagingInv, Staged
  <2>2. ASSUME NEW x \in Call PROVE CallInv(x)'
    BY <1>1 DEF Inv, TypeOK, Begin, RecordOf, CallInv, Early, Promoting, Failing, DirInv, Directories
  <2>3. ASSUME NEW x \in Call PROVE StagingInv(x)'
    BY <1>1 DEF Inv, TypeOK, Begin, RecordOf, StagingInv, CallInv, Early, Promoting, Failing, Staged, EmptyDir
  <2>4. DirInv'
    <3>1. ASSUME NEW d \in Directories, d.manifest # None
          PROVE  d.manifest \in Call /\ made[d.manifest] # "none"
      BY <3>1 DEF Inv, TypeOK, DirInv, Directories, Directory
    <3>2. \A m \in Call : made[m] # "none" => made'[m] = made[m]
      BY <1>1 DEF Inv, TypeOK, Begin, CallInv, Early
    <3>. QED
      BY <1>1, <3>1, <3>2 DEF Inv, Begin, DirInv, Directories
  <2>5. QuietInv'
    BY <1>1 DEF Inv, TypeOK, Begin, RecordOf, QuietInv, Quiet, CallInv, StagingInv, Staged, Early, Promoting, Failing, EmptyDir
  <2>. QED
    BY <2>1, <2>2, <2>3, <2>4, <2>5 DEF Inv
<1>2. ASSUME NEW c \in Call, Lookup(c) PROVE Inv'
  <2>1. TypeOK'
    BY <1>2 DEF Inv, TypeOK, Lookup, ManifestExists, Running, Directory, EmptyDir, StagingInv, Staged
  <2>2. ASSUME NEW x \in Call PROVE CallInv(x)'
    BY <1>2 DEF Inv, TypeOK, Lookup, ManifestExists, CallInv, Early, Promoting, Failing, DirInv, Directories
  <2>3. ASSUME NEW x \in Call PROVE StagingInv(x)'
    BY <1>2 DEF Inv, TypeOK, Lookup, ManifestExists, StagingInv, CallInv, Early, Promoting, Failing, Staged, EmptyDir
  <2>4. DirInv'
    BY <1>2 DEF Inv, TypeOK, Lookup, ManifestExists, DirInv, Directories, CallInv, StagingInv, Staged, Early, Promoting, Failing, EmptyDir
  <2>5. QuietInv'
    BY <1>2 DEF Inv, TypeOK, Lookup, ManifestExists, QuietInv, Quiet, CallInv, StagingInv, Staged, Early, Promoting, Failing, EmptyDir
  <2>. QED
    BY <2>1, <2>2, <2>3, <2>4, <2>5 DEF Inv
<1>3. ASSUME NEW c \in Call, Load(c) PROVE Inv'
  <2>1. TypeOK'
    BY <1>3 DEF Inv, TypeOK, Load, ManifestExists, Return, Running, Directory, EmptyDir, StagingInv, Staged
  <2>2. ASSUME NEW x \in Call PROVE CallInv(x)'
    BY <1>3 DEF Inv, TypeOK, Load, ManifestExists, Return, CallInv, Early, Promoting, Failing, DirInv, Directories
  <2>3. ASSUME NEW x \in Call PROVE StagingInv(x)'
    BY <1>3 DEF Inv, TypeOK, Load, ManifestExists, Return, StagingInv, CallInv, Early, Promoting, Failing, Staged, EmptyDir
  <2>4. DirInv'
    BY <1>3 DEF Inv, TypeOK, Load, ManifestExists, Return, DirInv, Directories, CallInv, StagingInv, Staged, Early, Promoting, Failing, EmptyDir
  <2>5. QuietInv'
    BY <1>3 DEF Inv, TypeOK, Load, ManifestExists, Return, QuietInv, Quiet, CallInv, StagingInv, Staged, Early, Promoting, Failing, EmptyDir
  <2>. QED
    BY <2>1, <2>2, <2>3, <2>4, <2>5 DEF Inv
<1>4. ASSUME NEW c \in Call, PutSource(c) PROVE Inv'
  <2>1. TypeOK'
    BY <1>4 DEF Inv, TypeOK, PutSource, Stored, Running, Directory, EmptyDir, StagingInv, Staged
  <2>2. ASSUME NEW x \in Call PROVE CallInv(x)'
    BY <1>4 DEF Inv, TypeOK, PutSource, Stored, CallInv, Early, Promoting, Failing, DirInv, Directories
  <2>3. ASSUME NEW x \in Call PROVE StagingInv(x)'
    BY <1>4 DEF Inv, TypeOK, PutSource, Stored, StagingInv, CallInv, Early, Promoting, Failing, Staged, EmptyDir
  <2>4. DirInv'
    BY <1>4 DEF Inv, TypeOK, PutSource, Stored, DirInv, Directories, CallInv, StagingInv, Staged, Early, Promoting, Failing, EmptyDir
  <2>5. QuietInv'
    BY <1>4 DEF Inv, TypeOK, PutSource, Stored, QuietInv, Quiet, CallInv, StagingInv, Staged, Early, Promoting, Failing, EmptyDir
  <2>. QED
    BY <2>1, <2>2, <2>3, <2>4, <2>5 DEF Inv
<1>5. ASSUME NEW c \in Call, Extract(c) PROVE Inv'
  <2>1. TypeOK'
    BY <1>5 DEF Inv, TypeOK, Extract, StagingOf, Running, Directory, EmptyDir, StagingInv, Staged
  <2>2. ASSUME NEW x \in Call PROVE CallInv(x)'
    BY <1>5 DEF Inv, TypeOK, Extract, StagingOf, CallInv, Early, Promoting, Failing, DirInv, Directories
  <2>3. ASSUME NEW x \in Call PROVE StagingInv(x)'
    <3>1. pc[c] = "extract" /\ staging[c] = None
      BY <1>5 DEF Inv, Extract, StagingInv, Early
    <3>2. staging' = [staging EXCEPT ![c] = Staged(None, c)]
      <4>1. [EmptyDir EXCEPT !.parts = {c}] = Staged(None, c)
        BY DEF EmptyDir, Staged
      <4>. QED
        BY <1>5, <3>1, <4>1 DEF Extract, StagingOf
    <3>3. CASE x = c
      <4>1. staging'[c] = Staged(None, c)
        BY <3>2 DEF Inv, TypeOK
      <4>2. pc'[c] = "work"
        BY <1>5 DEF Inv, TypeOK, Extract
      <4>3. Staged(None, c) # None
        BY StagedIsDirectory
      <4>. QED
        BY <3>3, <4>1, <4>2, <4>3 DEF StagingInv, Early, Promoting, Failing
    <3>4. CASE x # c
      BY <1>5, <3>2, <3>4 DEF Inv, TypeOK, Extract, StagingInv
    <3>. QED
      BY <3>3, <3>4
  <2>4. DirInv'
    BY <1>5 DEF Inv, TypeOK, Extract, StagingOf, DirInv, Directories, CallInv, StagingInv, Staged, Early, Promoting, Failing, EmptyDir
  <2>5. QuietInv'
    BY <1>5 DEF Inv, TypeOK, Extract, StagingOf, QuietInv, Quiet, CallInv, StagingInv, Staged, Early, Promoting, Failing, EmptyDir
  <2>. QED
    BY <2>1, <2>2, <2>3, <2>4, <2>5 DEF Inv
<1>6. ASSUME NEW c \in Call, ExtractionCompletes(c) PROVE Inv'
  <2>1. TypeOK'
    BY <1>6 DEF Inv, TypeOK, ExtractionCompletes, Running, Directory, EmptyDir, StagingInv, Staged
  <2>2. ASSUME NEW x \in Call PROVE CallInv(x)'
    BY <1>6 DEF Inv, TypeOK, ExtractionCompletes, CallInv, Early, Promoting, Failing, DirInv, Directories
  <2>3. ASSUME NEW x \in Call PROVE StagingInv(x)'
    BY <1>6 DEF Inv, TypeOK, ExtractionCompletes, StagingInv, CallInv, Early, Promoting, Failing, Staged, EmptyDir
  <2>4. DirInv'
    BY <1>6 DEF Inv, TypeOK, ExtractionCompletes, DirInv, Directories, CallInv, StagingInv, Staged, Early, Promoting, Failing, EmptyDir
  <2>5. QuietInv'
    BY <1>6 DEF Inv, TypeOK, ExtractionCompletes, QuietInv, Quiet, CallInv, StagingInv, Staged, Early, Promoting, Failing, EmptyDir
  <2>. QED
    BY <2>1, <2>2, <2>3, <2>4, <2>5 DEF Inv
<1>7. ASSUME NEW c \in Call, ExtractionFails(c) PROVE Inv'
  <2>1. TypeOK'
    BY <1>7 DEF Inv, TypeOK, ExtractionFails, RecordOf, DropStaging, StagingOf, Running, Directory, EmptyDir, StagingInv, Staged
  <2>2. ASSUME NEW x \in Call PROVE CallInv(x)'
    BY <1>7 DEF Inv, TypeOK, ExtractionFails, RecordOf, DropStaging, StagingOf, CallInv, Early, Promoting, Failing, DirInv, Directories
  <2>3. ASSUME NEW x \in Call PROVE StagingInv(x)'
    BY <1>7 DEF Inv, TypeOK, ExtractionFails, RecordOf, DropStaging, StagingOf, StagingInv, CallInv, Early, Promoting, Failing, Staged, EmptyDir
  <2>4. DirInv'
    BY <1>7 DEF Inv, TypeOK, ExtractionFails, RecordOf, DropStaging, StagingOf, DirInv, Directories, CallInv, StagingInv, Staged, Early, Promoting, Failing, EmptyDir
  <2>5. QuietInv'
    BY <1>7 DEF Inv, TypeOK, ExtractionFails, RecordOf, DropStaging, StagingOf, QuietInv, Quiet, CallInv, StagingInv, Staged, Early, Promoting, Failing, EmptyDir
  <2>. QED
    BY <2>1, <2>2, <2>3, <2>4, <2>5 DEF Inv
<1>8. ASSUME NEW c \in Call, ExtractionRaises(c) PROVE Inv'
  <2>1. TypeOK'
    BY <1>8 DEF Inv, TypeOK, ExtractionRaises, DropStaging, StagingOf, Running, Directory, EmptyDir, StagingInv, Staged
  <2>2. ASSUME NEW x \in Call PROVE CallInv(x)'
    BY <1>8 DEF Inv, TypeOK, ExtractionRaises, DropStaging, StagingOf, CallInv, Early, Promoting, Failing, DirInv, Directories
  <2>3. ASSUME NEW x \in Call PROVE StagingInv(x)'
    BY <1>8 DEF Inv, TypeOK, ExtractionRaises, DropStaging, StagingOf, StagingInv, CallInv, Early, Promoting, Failing, Staged, EmptyDir
  <2>4. DirInv'
    BY <1>8 DEF Inv, TypeOK, ExtractionRaises, DropStaging, StagingOf, DirInv, Directories, CallInv, StagingInv, Staged, Early, Promoting, Failing, EmptyDir
  <2>5. QuietInv'
    BY <1>8 DEF Inv, TypeOK, ExtractionRaises, DropStaging, StagingOf, QuietInv, Quiet, CallInv, StagingInv, Staged, Early, Promoting, Failing, EmptyDir
  <2>. QED
    BY <2>1, <2>2, <2>3, <2>4, <2>5 DEF Inv
<1>9. ASSUME NEW c \in Call, Assemble(c) PROVE Inv'
  <2>1. TypeOK'
    BY <1>9 DEF Inv, TypeOK, Assemble, StagingOf, AfterAssembly, Running, Directory, EmptyDir, StagingInv, Staged
  <2>2. ASSUME NEW x \in Call PROVE CallInv(x)'
    BY <1>9 DEF Inv, TypeOK, Assemble, StagingOf, AfterAssembly, CallInv, Early, Promoting, Failing, DirInv, Directories
  <2>3. ASSUME NEW x \in Call PROVE StagingInv(x)'
    <3>1. staging[c] \in {Staged(None, c), Staged(c, c)}
      BY <1>9 DEF Inv, Assemble, StagingOf, StagingInv
    <3>2. staging' = [staging EXCEPT ![c] = Staged(c, c)]
      <4>1. \A m : [Staged(m, c) EXCEPT !.manifest = c] = Staged(c, c)
        BY DEF Staged
      <4>. QED
        BY <1>9, <3>1, <4>1 DEF Assemble, StagingOf
    <3>3. CASE x = c
      BY <1>9, <3>2, <3>3, StagedIsDirectory DEF Inv, TypeOK, Assemble, AfterAssembly, StagingInv, Early, Promoting, Failing
    <3>4. CASE x # c
      BY <1>9, <3>2, <3>4 DEF Inv, TypeOK, Assemble, StagingInv
    <3>. QED
      BY <3>3, <3>4
  <2>4. DirInv'
    BY <1>9 DEF Inv, TypeOK, Assemble, StagingOf, AfterAssembly, DirInv, Directories, CallInv, StagingInv, Staged, Early, Promoting, Failing, EmptyDir
  <2>5. QuietInv'
    BY <1>9 DEF Inv, TypeOK, Assemble, StagingOf, AfterAssembly, QuietInv, Quiet, CallInv, StagingInv, Staged, Early, Promoting, Failing, EmptyDir
  <2>. QED
    BY <2>1, <2>2, <2>3, <2>4, <2>5 DEF Inv
<1>10. ASSUME NEW c \in Call, ForcedCheck(c) PROVE Inv'
  <2>1. TypeOK'
    BY <1>10 DEF Inv, TypeOK, ForcedCheck, ManifestExists, Running, Directory, EmptyDir, StagingInv, Staged
  <2>2. ASSUME NEW x \in Call PROVE CallInv(x)'
    BY <1>10 DEF Inv, TypeOK, ForcedCheck, ManifestExists, CallInv, Early, Promoting, Failing, DirInv, Directories
  <2>3. ASSUME NEW x \in Call PROVE StagingInv(x)'
    BY <1>10 DEF Inv, TypeOK, ForcedCheck, ManifestExists, StagingInv, CallInv, Early, Promoting, Failing, Staged, EmptyDir
  <2>4. DirInv'
    BY <1>10 DEF Inv, TypeOK, ForcedCheck, ManifestExists, DirInv, Directories, CallInv, StagingInv, Staged, Early, Promoting, Failing, EmptyDir
  <2>5. QuietInv'
    BY <1>10 DEF Inv, TypeOK, ForcedCheck, ManifestExists, QuietInv, Quiet, CallInv, StagingInv, Staged, Early, Promoting, Failing, EmptyDir
  <2>. QED
    BY <2>1, <2>2, <2>3, <2>4, <2>5 DEF Inv
<1>11. ASSUME NEW c \in Call, Supersede(c) PROVE Inv'
  <2>1. TypeOK'
    BY <1>11 DEF Inv, TypeOK, Supersede, MaySupersede, KeptVersions, DropStaging, StagingOf, Running, Directory, EmptyDir, StagingInv, Staged
  <2>2. ASSUME NEW x \in Call PROVE CallInv(x)'
    BY <1>11 DEF Inv, TypeOK, Supersede, MaySupersede, KeptVersions, DropStaging, StagingOf, CallInv, Early, Promoting, Failing, DirInv, Directories
  <2>3. ASSUME NEW x \in Call PROVE StagingInv(x)'
    <3>1. CASE x = c
      BY <1>11, <3>1 DEF Inv, TypeOK, Supersede, DropStaging, StagingOf, StagingInv, Early, Promoting, Failing
    <3>2. CASE x # c
      BY <1>11, <3>2 DEF Inv, TypeOK, Supersede, DropStaging, StagingOf, StagingInv
    <3>. QED
      BY <3>1, <3>2
  <2>4. DirInv'
    BY <1>11 DEF Inv, TypeOK, Supersede, MaySupersede, KeptVersions, DropStaging, StagingOf, DirInv, Directories, CallInv, StagingInv, Staged, Early, Promoting, Failing, EmptyDir
  <2>5. QuietInv'
    BY <1>11 DEF Inv, TypeOK, Supersede, MaySupersede, KeptVersions, DropStaging, StagingOf, QuietInv, Quiet, CallInv, StagingInv, Staged, Early, Promoting, Failing, EmptyDir
  <2>. QED
    BY <2>1, <2>2, <2>3, <2>4, <2>5 DEF Inv
<1>12. ASSUME NEW c \in Call, Promote(c) PROVE Inv'
  <2>1. TypeOK'
    BY <1>12 DEF Inv, TypeOK, Promote, MayPromote, DropStaging, StagingOf, Return, Running, Directory, EmptyDir, StagingInv, Staged
  <2>2. ASSUME NEW x \in Call PROVE CallInv(x)'
    BY <1>12 DEF Inv, TypeOK, Promote, MayPromote, DropStaging, StagingOf, Return, CallInv, Early, Promoting, Failing, DirInv, Directories
  <2>3. ASSUME NEW x \in Call PROVE StagingInv(x)'
    <3>1. CASE x = c
      BY <1>12, <3>1 DEF Inv, TypeOK, Promote, DropStaging, StagingOf, StagingInv, Early, Promoting, Failing
    <3>2. CASE x # c
      BY <1>12, <3>2 DEF Inv, TypeOK, Promote, DropStaging, StagingOf, StagingInv
    <3>. QED
      BY <3>1, <3>2
  <2>4. DirInv'
    BY <1>12 DEF Inv, TypeOK, Promote, MayPromote, DropStaging, StagingOf, Return, DirInv, Directories, CallInv, StagingInv, Staged, Early, Promoting, Failing, EmptyDir
  <2>5. QuietInv'
    BY <1>12 DEF Inv, TypeOK, Promote, MayPromote, DropStaging, StagingOf, Return, QuietInv, Quiet, CallInv, StagingInv, Staged, Early, Promoting, Failing, EmptyDir
  <2>. QED
    BY <2>1, <2>2, <2>3, <2>4, <2>5 DEF Inv
<1>13. ASSUME NEW c \in Call, Replace(c) PROVE Inv'
  <2>1. TypeOK'
    BY <1>13 DEF Inv, TypeOK, Replace, MayReplace, DropStaging, StagingOf, Return, Running, Directory, EmptyDir, StagingInv, Staged
  <2>2. ASSUME NEW x \in Call PROVE CallInv(x)'
    BY <1>13 DEF Inv, TypeOK, Replace, MayReplace, DropStaging, StagingOf, Return, CallInv, Early, Promoting, Failing, DirInv, Directories
  <2>3. ASSUME NEW x \in Call PROVE StagingInv(x)'
    <3>1. CASE x = c
      BY <1>13, <3>1 DEF Inv, TypeOK, Replace, DropStaging, StagingOf, StagingInv, Early, Promoting, Failing
    <3>2. CASE x # c
      BY <1>13, <3>2 DEF Inv, TypeOK, Replace, DropStaging, StagingOf, StagingInv
    <3>. QED
      BY <3>1, <3>2
  <2>4. DirInv'
    BY <1>13 DEF Inv, TypeOK, Replace, MayReplace, DropStaging, StagingOf, Return, DirInv, Directories, CallInv, StagingInv, Staged, Early, Promoting, Failing, EmptyDir
  <2>5. QuietInv'
    <3>1. CASE MayReplace
      <4>1. dir' = Staged(c, c) /\ made[c] = "completed"
        BY <1>13, <3>1 DEF Inv, Replace, StagingOf, StagingInv, CallInv, Promoting
      <4>. QED
        BY <1>13, <3>1, <4>1, StagedIsDirectory DEF Inv, Replace, QuietInv, Quiet
    <3>2. CASE ~MayReplace
      BY <1>13, <3>2 DEF Inv, Replace, QuietInv, Quiet
    <3>. QED
      BY <3>1, <3>2
  <2>. QED
    BY <2>1, <2>2, <2>3, <2>4, <2>5 DEF Inv
<1>14. ASSUME NEW c \in Call, MakeDir(c) PROVE Inv'
  <2>1. TypeOK'
    BY <1>14 DEF Inv, TypeOK, MakeDir, Running, Directory, EmptyDir, StagingInv, Staged
  <2>2. ASSUME NEW x \in Call PROVE CallInv(x)'
    BY <1>14 DEF Inv, TypeOK, MakeDir, CallInv, Early, Promoting, Failing, DirInv, Directories
  <2>3. ASSUME NEW x \in Call PROVE StagingInv(x)'
    BY <1>14 DEF Inv, TypeOK, MakeDir, StagingInv, CallInv, Early, Promoting, Failing, Staged, EmptyDir
  <2>4. DirInv'
    BY <1>14 DEF Inv, TypeOK, MakeDir, DirInv, Directories, CallInv, StagingInv, Staged, Early, Promoting, Failing, EmptyDir
  <2>5. QuietInv'
    BY <1>14 DEF Inv, TypeOK, MakeDir, QuietInv, Quiet, CallInv, StagingInv, Staged, Early, Promoting, Failing, EmptyDir
  <2>. QED
    BY <2>1, <2>2, <2>3, <2>4, <2>5 DEF Inv
<1>15. ASSUME NEW c \in Call, WriteTmp(c) PROVE Inv'
  <2>1. TypeOK'
    BY <1>15 DEF Inv, TypeOK, WriteTmp, Running, Directory, EmptyDir, StagingInv, Staged
  <2>2. ASSUME NEW x \in Call PROVE CallInv(x)'
    BY <1>15 DEF Inv, TypeOK, WriteTmp, CallInv, Early, Promoting, Failing, DirInv, Directories
  <2>3. ASSUME NEW x \in Call PROVE StagingInv(x)'
    BY <1>15 DEF Inv, TypeOK, WriteTmp, StagingInv, CallInv, Early, Promoting, Failing, Staged, EmptyDir
  <2>4. DirInv'
    <3>1. CASE dir = None
      BY <1>15, <3>1 DEF Inv, WriteTmp, DirInv, Directories
    <3>2. CASE dir # None
      <4>1. dir'.manifest = dir.manifest /\ dir'.parts = dir.parts
        BY <1>15, <3>2 DEF Inv, TypeOK, WriteTmp, Directory
      <4>. QED
        BY <1>15, <3>2, <4>1 DEF Inv, WriteTmp, DirInv, Directories
    <3>. QED
      BY <3>1, <3>2
  <2>5. QuietInv'
    BY <1>15 DEF Inv, TypeOK, WriteTmp, QuietInv, Quiet, CallInv, StagingInv, Staged, Early, Promoting, Failing, EmptyDir
  <2>. QED
    BY <2>1, <2>2, <2>3, <2>4, <2>5 DEF Inv
<1>16. ASSUME NEW c \in Call, WriteFailure(c) PROVE Inv'
  <2>1. TypeOK'
    <3>1. CASE dir # None /\ c \in dir.tmp
      <4>1. dir \in Directory /\ dir' = [dir EXCEPT !.tmp = @ \ {c}, !.manifest = c]
        BY <1>16, <3>1 DEF Inv, TypeOK, WriteFailure
      <4>2. dir' \in Directory
        BY <4>1, FailureIsDirectory
      <4>. QED
        BY <1>16, <3>1, <4>2 DEF Inv, TypeOK, WriteFailure, Return, Running
    <3>2. CASE ~(dir # None /\ c \in dir.tmp)
      BY <1>16, <3>2 DEF Inv, TypeOK, WriteFailure, Running
    <3>. QED
      BY <3>1, <3>2
  <2>2. ASSUME NEW x \in Call PROVE CallInv(x)'
    BY <1>16 DEF Inv, TypeOK, WriteFailure, Return, CallInv, Early, Promoting, Failing, DirInv, Directories
  <2>3. ASSUME NEW x \in Call PROVE StagingInv(x)'
    BY <1>16 DEF Inv, TypeOK, WriteFailure, Return, StagingInv, CallInv, Early, Promoting, Failing, Staged, EmptyDir
  <2>4. DirInv'
    <3>1. CASE dir # None /\ c \in dir.tmp
      <4>1. made[c] = "failed"
        BY <1>16 DEF Inv, WriteFailure, CallInv, Failing
      <4>2. dir \in Directory /\ dir' = [dir EXCEPT !.tmp = @ \ {c}, !.manifest = c]
        BY <1>16, <3>1 DEF Inv, TypeOK, WriteFailure
      <4>3. dir'.manifest = c
        BY <4>2, FailureIsDirectory
      <4>. QED
        BY <1>16, <3>1, <4>1, <4>3 DEF Inv, WriteFailure, DirInv, Directories
    <3>2. CASE ~(dir # None /\ c \in dir.tmp)
      BY <1>16, <3>2 DEF Inv, WriteFailure, DirInv, Directories
    <3>. QED
      BY <3>1, <3>2
  <2>5. QuietInv'
    BY <1>16 DEF Inv, TypeOK, WriteFailure, Return, QuietInv, Quiet, CallInv, StagingInv, Staged, Early, Promoting, Failing, EmptyDir
  <2>. QED
    BY <2>1, <2>2, <2>3, <2>4, <2>5 DEF Inv
<1>17. ASSUME NEW c \in Call, RecordQuarantine(c) PROVE Inv'
  <2>1. TypeOK'
    BY <1>17 DEF Inv, TypeOK, RecordQuarantine, Return, Running, Directory, EmptyDir, StagingInv, Staged
  <2>2. ASSUME NEW x \in Call PROVE CallInv(x)'
    BY <1>17 DEF Inv, TypeOK, RecordQuarantine, Return, CallInv, Early, Promoting, Failing, DirInv, Directories
  <2>3. ASSUME NEW x \in Call PROVE StagingInv(x)'
    BY <1>17 DEF Inv, TypeOK, RecordQuarantine, Return, StagingInv, CallInv, Early, Promoting, Failing, Staged, EmptyDir
  <2>4. DirInv'
    BY <1>17 DEF Inv, TypeOK, RecordQuarantine, Return, DirInv, Directories, CallInv, StagingInv, Staged, Early, Promoting, Failing, EmptyDir
  <2>5. QuietInv'
    BY <1>17 DEF Inv, TypeOK, RecordQuarantine, Return, QuietInv, Quiet, CallInv, StagingInv, Staged, Early, Promoting, Failing, EmptyDir
  <2>. QED
    BY <2>1, <2>2, <2>3, <2>4, <2>5 DEF Inv
<1>18. ASSUME NEW c \in Call, Crash(c) PROVE Inv'
  <2>1. TypeOK'
    BY <1>18 DEF Inv, TypeOK, Crash, Running, Directory, EmptyDir, StagingInv, Staged
  <2>2. ASSUME NEW x \in Call PROVE CallInv(x)'
    BY <1>18 DEF Inv, TypeOK, Crash, CallInv, Early, Promoting, Failing, DirInv, Directories
  <2>3. ASSUME NEW x \in Call PROVE StagingInv(x)'
    BY <1>18 DEF Inv, TypeOK, Crash, StagingInv, CallInv, Early, Promoting, Failing, Staged, EmptyDir
  <2>4. DirInv'
    BY <1>18 DEF Inv, TypeOK, Crash, DirInv, Directories, CallInv, StagingInv, Staged, Early, Promoting, Failing, EmptyDir
  <2>5. QuietInv'
    BY <1>18 DEF Inv, TypeOK, Crash, QuietInv, Quiet, CallInv, StagingInv, Staged, Early, Promoting, Failing, EmptyDir
  <2>. QED
    BY <2>1, <2>2, <2>3, <2>4, <2>5 DEF Inv
<1>19. ASSUME UNCHANGED vars PROVE Inv'
  BY <1>19 DEF vars, Inv, TypeOK, CallInv, StagingInv, DirInv, Directories, QuietInv, Quiet
<1>. QED
  BY <1>1, <1>2, <1>3, <1>4, <1>5, <1>6, <1>7, <1>8, <1>9, <1>10, <1>11, <1>12, <1>13, <1>14, <1>15, <1>16, <1>17, <1>18, <1>19 DEF Next, Step

(* So it holds throughout.                                                 *)
LEMMA Invariant == Spec => []Inv
BY InitInv, NextInv, PTL DEF Spec

--------------------------------------------------------------------------------

(* The state of a sample keeps its shape: compute_sample_id, LocalFSStore. *)
THEOREM TypeCorrect == Spec => []TypeOK
<1>1. Inv => TypeOK
  BY DEF Inv
<1>. QED
  BY <1>1, Invariant, PTL

(* No reader of samples/ or superseded/ meets a completed manifest beside  *)
(* anything but its own artifacts (process_source, promote_prefix).        *)
THEOREM CompletedWhole == Spec => []CompletedIsWhole
<1>1. Inv => CompletedIsWhole
  BY DEF Inv, DirInv, CompletedIsWhole
<1>. QED
  BY <1>1, Invariant, PTL

(* No timeout or native crash is ever published as the sample's outcome    *)
(* (_finalize_failure).                                                    *)
THEOREM EnvironmentNotPinned == Spec => []EnvironmentDoesNotPin
<1>1. Inv => EnvironmentDoesNotPin
  BY DEF Inv, DirInv, EnvironmentDoesNotPin
<1>. QED
  BY <1>1, Invariant, PTL

(* Who publishes a manifest has stored the source before (process_source). *)
THEOREM SourceStored == Spec => []SourceIsThere
<1>1. Inv => SourceIsThere
  <2>. SUFFICES ASSUME Inv, NEW d \in Directories, d.manifest # None, named[d.manifest]
       PROVE  source
    BY DEF SourceIsThere
  <2>1. d.manifest \in Call /\ made[d.manifest] # "none"
    BY DEF Inv, TypeOK, DirInv, Directories, Directory
  <2>. QED
    BY <2>1 DEF Inv, CallInv
<1>. QED
  BY <1>1, Invariant, PTL

(* Without forced reruns and failures, "completed" once answered is found  *)
(* by everyone later (load_manifest).                                      *)
THEOREM CompletedFound == Spec => []CompletedIsFound
<1>1. Inv => CompletedIsFound
  BY DEF Inv, QuietInv, CompletedIsFound, ManifestExists
<1>. QED
  BY <1>1, Invariant, PTL

(* Every call that returns or raises has cleared its staging directory     *)
(* (the finally clause of process_source).                                 *)
THEOREM StagingCleared == Spec => []NoStagingLeft
<1>1. Inv => NoStagingLeft
  BY DEF Inv, StagingInv, NoStagingLeft, StagingOf
<1>. QED
  BY <1>1, Invariant, PTL

(* Whatever was promoted stays readable, in its place or under superseded/ *)
(* (process_source's forced rerun, put_bytes of a failure).                *)
THEOREM ArtifactsKept == Spec => ArtifactsAreKept
<1>1. Inv /\ [Next]_vars => [\A c \in Call : Holds(Directories, c) => Holds(Directories', c)]_vars
  <2>. SUFFICES ASSUME Inv, NEW c \in Call, Step(c) \/ Crash(c), NEW x \in Call, Holds(Directories, x)
       PROVE  Holds(Directories', x)
    BY DEF Next
  <2>1. CASE Replace(c)
    <3>1. CASE MayReplace
      <4>1. dir = None \/ dir.parts = {}
        BY <3>1 DEF MayReplace, EmptyDir
      <4>. QED
        BY <2>1, <4>1 DEF Replace, Holds, Directories
    <3>2. CASE ~MayReplace
      BY <2>1, <3>2 DEF Replace, Holds, Directories
    <3>. QED
      BY <3>1, <3>2
  <2>2. CASE MakeDir(c)
    BY <2>2 DEF MakeDir, Holds, Directories
  <2>3. CASE WriteTmp(c)
    <3>1. dir # None => dir'.parts = dir.parts /\ dir' # None
      BY <2>3, NoneAssumption DEF WriteTmp, Inv, TypeOK, Directory
    <3>. QED
      BY <2>3, <3>1 DEF WriteTmp, Holds, Directories
  <2>4. CASE WriteFailure(c)
    <3>1. CASE dir' = dir
      BY <2>4, <3>1 DEF WriteFailure, Holds, Directories
    <3>2. CASE dir' # dir
      <4>1. dir \in Directory /\ dir' = [dir EXCEPT !.tmp = @ \ {c}, !.manifest = c]
        BY <2>4, <3>2 DEF WriteFailure, Inv, TypeOK
      <4>2. dir' \in Directory
        BY <4>1, FailureIsDirectory
      <4>3. dir # None /\ dir' # None
        BY <4>1, <4>2, NoneAssumption
      <4>4. dir'.parts = dir.parts
        BY <4>1 DEF Directory
      <4>. QED
        BY <2>4, <4>3, <4>4 DEF WriteFailure, Holds, Directories
    <3>. QED
      BY <3>1, <3>2
  <2>5. CASE Supersede(c)
    BY <2>5 DEF Supersede, MaySupersede, KeptVersions, Holds, Directories
  <2>6. CASE dir' = dir /\ superseded' = superseded
    BY <2>6 DEF Holds, Directories
  <2>. QED
    BY <2>1, <2>2, <2>3, <2>4, <2>5, <2>6
    DEF Step, Crash, Begin, Lookup, Load, PutSource, Extract, ExtractionCompletes, ExtractionFails,
        ExtractionRaises, Assemble, ForcedCheck, Promote, RecordQuarantine
<1>. QED
  BY <1>1, Invariant, PTL DEF Spec, ArtifactsAreKept
================================================================================
