---------------------------- MODULE PublicationProofs --------------------------
(***************************************************************************)
(* Theorems about Publication, for any number of samples, builders,        *)
(* trainers, readers, changes and deaths.                                  *)
(***************************************************************************)
EXTENDS Publication, FiniteSetTheorems, WellFoundedInduction, TLAPS

USE NumSamplesAssumption, OrderAssumption, NoneAssumption, BoundsAssumption

(* A nonempty set of natural numbers has a least element: < is well        *)
(* founded, and the relation is given as a set.                            *)
LEMMA LeastIsLeast ==
  ASSUME NEW S \in SUBSET Nat, S # {}
  PROVE  Least(S) \in S /\ \A y \in S : Least(S) <= y
<1> DEFINE R == { e \in Nat \X Nat : e[1] < e[2] }
<1>1. IsWellFoundedOn(R, Nat)
  BY NatLessThanWellFounded DEF OpToRel
<1>2. PICK x \in S : \A y \in S : <<y, x>> \notin R
  <2> HIDE DEF R
  <2> QED BY <1>1, WFMin
<1>3. \A m, n \in Nat : <<m, n>> \in R <=> m < n
  OBVIOUS
<1> HIDE DEF R
<1>4. ASSUME NEW y \in S PROVE x <= y
  <2>1. x \in Nat /\ y \in Nat
    OBVIOUS
  <2>2. ~ (y < x)
    BY <1>2, <1>3, <2>1
  <2> QED
    BY <2>1, <2>2
<1> QED
  BY <1>4 DEF Least

(* One pass over a set of samples stops, or goes on with a member of it.   *)
LEMMA PassGoesOn ==
  ASSUME NEW b \in Builder, NEW S \in SUBSET Sample, NEW s \in Nat,
         NEW again, NEW then, Pass(b, S, s, again, then)
  PROVE  \/ GoBuilder(b, then) /\ next' = [next EXCEPT ![b] = 1]
         \/ GoBuilder(b, again) /\ \E n \in S : next' = [next EXCEPT ![b] = n]
<1>1. CASE Following(S, s) = {}
  BY <1>1 DEF Pass
<1>2. CASE Following(S, s) # {}
  <2>1. Following(S, s) \in SUBSET Nat /\ Following(S, s) \subseteq S
    BY DEF Following, Sample
  <2>2. Least(Following(S, s)) \in S
    BY <1>2, <2>1, LeastIsLeast
  <2> QED
    BY <1>2, <2>2 DEF Pass
<1> QED
  BY <1>1, <1>2

--------------------------------------------------------------------------------
(* What each actor has established, by its label.                          *)

Choosing == { "row", "insert" }
Told == { "answer", "created" }
BuilderInv(b) ==
  /\ bpc[b] \in {"manifest", "brep", "cloud"} => next[b] \in Included(content[b])
  /\ bpc[b] = "dataset" => content[b] \in labels
  /\ bpc[b] \in Choosing => dataset[content[b]] # None
  /\ bpc[b] \in Told => content[b] \in listed

\* A version has its labels, a row has its version, and one builder at most has
\* inserted the row.
VersionInv ==
  /\ \A v \in Content : dataset[v] # None => v \in labels
  /\ \A v \in listed : dataset[v] # None
  /\ \A b, c \in Builder :
       bpc[b] \in Told /\ bpc[c] \in Told /\ content[b] = content[c] => b = c

SampleInv == \A s \in Sample : manifest[s] = "completed" => parts[s] # None

\* The graphs that have been loaded have a node for each of their labels.
Loaded(t, s) == NumFaces[graphs[t][s]] = NumFaces[target[t][s].brep]
Writing == { "checkpoint", "predictions", "experiment", "done" }
TrainerInv(t) ==
  /\ tpc[t] \in {"dataset", "graph"} \cup Writing => target[t] # None /\ dataset[target[t]] # None
  /\ tpc[t] \in {"graph"} \cup Writing => target[t] \in labels
  /\ tpc[t] = "graph" =>
       /\ from[t] \in Included(target[t])
       /\ \A s \in Included(target[t]) : s < from[t] => Loaded(t, s)
  /\ tpc[t] \in Writing => \A s \in Included(target[t]) : Loaded(t, s)
  /\ tpc[t] \in {"predictions", "experiment", "done"} => checkpoint[target[t]] # None
  /\ tpc[t] \in {"experiment", "done"} => predictions[target[t]] # None

\* Who wrote the experiment record has done everything before it.
RunInv ==
  \A v \in Content : experiment[v] # None => tpc[experiment[v]] = "done" /\ target[experiment[v]] = v

ReaderInv(r) ==
  /\ Reading(r) => run[r] # None /\ sample[r] \in Sample
  /\ Reading(r) => checkpoint[run[r]] # None /\ (early[r] \/ experiment[run[r]] # None)
  /\ rpc[r] \in {"manifest", "model", "graph"} => disturbed[r] \/ manifest[sample[r]] # "none"
  /\ rpc[r] \in {"model", "graph"} => disturbed[r] \/ manifest[sample[r]] = "completed"
  /\ rpc[r] = "error" => early[r] \/ disturbed[r]

Inv ==
  /\ TypeOK /\ VersionInv /\ SampleInv /\ RunInv
  /\ \A b \in Builder : BuilderInv(b)
  /\ \A t \in Trainer : TrainerInv(t)
  /\ \A r \in Reader : ReaderInv(r)

LEMMA InitInv == Init => Inv
<1> SUFFICES ASSUME Init PROVE Inv
  OBVIOUS
<1>1. Nothing \in Content /\ Nothing \in [Sample -> Order \cup {None}]
  BY DEF Nothing, Content, Entry
<1>2. 1 \in Sample
  BY DEF Sample
<1>3. TypeOK
  BY <1>1, <1>2 DEF Init, TypeOK, BuilderPC, TrainerPC, ReaderPC
<1>4. VersionInv /\ SampleInv /\ RunInv
  BY DEF Init, VersionInv, SampleInv, RunInv, Told
<1>5. ASSUME NEW b \in Builder PROVE BuilderInv(b)
  BY DEF Init, BuilderInv, Choosing, Told
<1>6. ASSUME NEW t \in Trainer PROVE TrainerInv(t)
  BY DEF Init, TrainerInv, Writing
<1>7. ASSUME NEW r \in Reader PROVE ReaderInv(r)
  BY DEF Init, ReaderInv, Reading
<1> QED
  BY <1>3, <1>4, <1>5, <1>6, <1>7 DEF Inv

--------------------------------------------------------------------------------
(* Samples change: nobody else's promises speak of them, but those of a    *)
(* request, which is then disturbed.                                       *)
LEMMA ChangeInv ==
  ASSUME Inv, NEW s \in Sample, Supersede(s) \/ Promote(s) \/ FailInPlace(s)
  PROVE  Inv'
<1>1. Change
  BY DEF Supersede, Promote, FailInPlace
<1>2. TypeOK'
  <2>1. manifest' \in [Sample -> {"none", "completed", "failed"}] /\ parts' \in [Sample -> Order \cup {None}]
    <3>1. manifest \in [Sample -> {"none", "completed", "failed"}] /\ parts \in [Sample -> Order \cup {None}]
      BY DEF Inv, TypeOK
    <3>2. CASE Supersede(s)
      BY <3>1, <3>2 DEF Supersede
    <3>3. CASE Promote(s)
      BY <3>1, <3>3 DEF Promote
    <3>4. CASE FailInPlace(s)
      BY <3>1, <3>4 DEF FailInPlace
    <3> QED
      BY <3>2, <3>3, <3>4
  <2>2. changes' \in 0 .. MaxChanges
    BY <1>1 DEF Inv, TypeOK, Change
  <2>3. disturbed' \in [Reader -> BOOLEAN]
    BY <1>1, Zenon DEF Change
  <2> QED
    BY <1>1, <2>1, <2>2, <2>3
    DEF Inv, TypeOK, Change, versionVars, runVars, builderVars, trainerVars
<1>3. SampleInv'
  <2>1. CASE Supersede(s)
    BY <2>1 DEF Inv, SampleInv, TypeOK, Supersede
  <2>2. CASE Promote(s)
    BY <2>2 DEF Inv, SampleInv, TypeOK, Promote
  <2>3. CASE FailInPlace(s)
    BY <2>3 DEF Inv, SampleInv, TypeOK, FailInPlace
  <2> QED
    BY <2>1, <2>2, <2>3
<1>4. VersionInv' /\ RunInv'
  BY <1>1 DEF Inv, VersionInv, RunInv, Change, versionVars, runVars, builderVars, trainerVars
<1>5. ASSUME NEW b \in Builder PROVE BuilderInv(b)'
  BY <1>1 DEF Inv, BuilderInv, Change, versionVars, builderVars
<1>6. ASSUME NEW t \in Trainer PROVE TrainerInv(t)'
  BY <1>1 DEF Inv, TrainerInv, Loaded, Change, versionVars, runVars, trainerVars
<1>7. ASSUME NEW r \in Reader PROVE ReaderInv(r)'
  BY <1>1 DEF Inv, ReaderInv, TypeOK, Reading, Change, runVars
<1> QED
  BY <1>2, <1>3, <1>4, <1>5, <1>6, <1>7 DEF Inv
--------------------------------------------------------------------------------
(* A step of one builder, which takes nothing from the store.              *)
LEMMA BuilderAlone ==
  ASSUME Inv, NEW b \in Builder, TypeOK', VersionInv', BuilderInv(b)',
         UNCHANGED <<sampleVars, runVars, trainerVars, readerVars>>,
         \A v \in Content : dataset[v] # None => dataset'[v] # None,
         labels \subseteq labels', listed \subseteq listed',
         \A c \in Builder \ {b} : bpc'[c] = bpc[c] /\ content'[c] = content[c] /\ next'[c] = next[c]
  PROVE  Inv'
<1>1. SampleInv' /\ RunInv'
  BY DEF Inv, SampleInv, RunInv, sampleVars, runVars, trainerVars
<1>2. ASSUME NEW c \in Builder PROVE BuilderInv(c)'
  <2>1. CASE c = b
    BY <2>1
  <2>2. CASE c # b
    <3>1. content[c] \in Content
      BY DEF Inv, TypeOK
    <3> QED
      BY <2>2, <3>1 DEF Inv, BuilderInv
  <2> QED
    BY <2>1, <2>2
<1>3. ASSUME NEW t \in Trainer PROVE TrainerInv(t)'
  <2>1. target[t] \in Content \cup {None}
    BY DEF Inv, TypeOK
  <2> QED
    BY <2>1 DEF Inv, TrainerInv, Loaded, runVars, trainerVars, Writing
<1>4. ASSUME NEW r \in Reader PROVE ReaderInv(r)'
  BY DEF Inv, ReaderInv, Reading, sampleVars, runVars, readerVars
<1> QED
  BY <1>1, <1>2, <1>3, <1>4 DEF Inv

LEMMA ReadsAlone ==
  ASSUME Inv, NEW b \in Builder, BuilderReads, content' \in [Builder -> Content], next' \in [Builder -> Sample],
         NEW label \in BuilderPC, GoBuilder(b, label), BuilderInv(b)',
         bpc[b] \notin Told \/ content'[b] = content[b], label \in Told => bpc[b] \in Told,
         \A c \in Builder \ {b} : content'[c] = content[c] /\ next'[c] = next[c]
  PROVE  Inv'
<1>1. TypeOK'
  BY DEF Inv, TypeOK, BuilderReads, GoBuilder, sampleVars, versionVars, runVars, trainerVars, readerVars
<1>2. VersionInv'
  BY DEF Inv, VersionInv, TypeOK, GoBuilder, BuilderReads, versionVars
<1>3. \A c \in Builder \ {b} : bpc'[c] = bpc[c]
  BY DEF Inv, TypeOK, GoBuilder
<1>4. UNCHANGED <<sampleVars, runVars, trainerVars, readerVars, versionVars>>
  BY DEF BuilderReads
<1> QED
  BY <1>1, <1>2, <1>3, <1>4, BuilderAlone DEF versionVars

LEMMA Records ==
  /\ Unread \in [brep : Order, cloud : Order]
  /\ \A e \in [brep : Order, cloud : Order] : e \in Entry /\ e \notin {None, Excluded}
  /\ \A status : Read(status) \in Entry
<1>1. (CHOOSE o \in Order : TRUE) \in Order
  OBVIOUS
<1>2. Unread \in [brep : Order, cloud : Order]
  BY <1>1 DEF Unread
<1> QED
  BY <1>2 DEF Entry, Read

(* A builder that has read something and goes on with what it includes.    *)
LEMMA PassInv ==
  ASSUME Inv, NEW b \in Builder, BuilderReads, bpc[b] \notin Told,
         NEW c \in Content, content' = [content EXCEPT ![b] = c],
         NEW S \in SUBSET Included(c), NEW s \in Nat, NEW again \in {"manifest", "brep"},
         Pass(b, S, s, again, "exists")
  PROVE  Inv'
<1>1. content' \in [Builder -> Content] /\ content'[b] = c /\ \A d \in Builder \ {b} : content'[d] = content[d]
  BY DEF Inv, TypeOK
<1>2. next \in [Builder -> Sample] /\ 1 \in Sample /\ bpc \in [Builder -> BuilderPC]
  BY DEF Inv, TypeOK, Sample
<1>3. CASE GoBuilder(b, "exists") /\ next' = [next EXCEPT ![b] = 1]
  <2>1. BuilderInv(b)' /\ next' \in [Builder -> Sample] /\ \A d \in Builder \ {b} : next'[d] = next[d]
    BY <1>2, <1>3 DEF BuilderInv, GoBuilder, Choosing, Told
  <2> QED
    BY <1>1, <1>3, <2>1, ReadsAlone DEF BuilderPC, Told
<1>4. CASE GoBuilder(b, again) /\ \E n \in S : next' = [next EXCEPT ![b] = n]
  <2>1. BuilderInv(b)' /\ next' \in [Builder -> Sample] /\ \A d \in Builder \ {b} : next'[d] = next[d]
    BY <1>1, <1>2, <1>4 DEF BuilderInv, GoBuilder, Choosing, Told, Included
  <2> QED
    BY <1>1, <1>4, <2>1, ReadsAlone DEF BuilderPC, Told
<1>5. S \in SUBSET Sample
  BY DEF Included
<1> QED
  BY <1>3, <1>4, <1>5, PassGoesOn

(* A builder that goes on with what it has.                                *)
LEMMA GoesOnInv ==
  ASSUME Inv, NEW b \in Builder, BuilderReads, UNCHANGED <<next, content>>,
         NEW label \in BuilderPC \ (Told \cup {"manifest", "brep", "cloud"}), GoBuilder(b, label),
         label = "dataset" => content[b] \in labels,
         label \in Choosing => dataset[content[b]] # None
  PROVE  Inv'
<1>1. BuilderInv(b)'
  BY DEF BuilderInv, GoBuilder, BuilderReads, versionVars, Inv, TypeOK
<1>2. content' \in [Builder -> Content] /\ next' \in [Builder -> Sample]
  BY DEF Inv, TypeOK
<1> QED
  BY <1>1, <1>2, ReadsAlone

LEMMA ListManifestsInv ==
  ASSUME Inv, NEW b \in Builder, ListManifests(b)
  PROVE  Inv'
<1> DEFINE keys == { s \in Sample : manifest[s] # "none" }
           c == [s \in Sample |-> IF s \in keys THEN Unread ELSE None]
<1>1. /\ content' = [content EXCEPT ![b] = c] /\ Pass(b, keys, 0, "manifest", "exists")
      /\ BuilderReads /\ bpc[b] = "list"
  BY DEF ListManifests
<1>2. c \in Content /\ keys \subseteq Included(c)
  BY Records DEF Content, Entry, Included
<1> QED
  BY <1>1, <1>2, PassInv DEF Told

LEMMA ReadManifestInv ==
  ASSUME Inv, NEW b \in Builder, ReadManifest(b)
  PROVE  Inv'
<1> DEFINE s == next[b]
           rest == Following(Included(content[b]), s)
           c == [content[b] EXCEPT ![s] = Read(manifest[s])]
<1>1. bpc[b] = "manifest" /\ BuilderReads
  BY DEF ReadManifest
<1>2. content[b] \in Content /\ s \in Sample /\ s \in Nat
  BY DEF Inv, TypeOK, Sample
<1>3. c \in Content
  BY <1>2, Records DEF Content
<1>4. rest \subseteq Included(c)
  BY <1>2 DEF Following, Included, Content, Sample
<1>5. CASE GoBuilder(b, "error") /\ UNCHANGED <<next, content>>
  BY <1>1, <1>5, GoesOnInv DEF BuilderPC, Told, Choosing
<1>6. CASE content' = [content EXCEPT ![b] = c] /\ Pass(b, rest, s, "manifest", "exists")
  BY <1>1, <1>2, <1>3, <1>4, <1>6, PassInv DEF Told
<1>7. CASE content' = [content EXCEPT ![b] = c] /\ Pass(b, Included(c), 0, "brep", "exists")
  BY <1>1, <1>3, <1>7, PassInv DEF Told
<1>8. content' = [content EXCEPT ![b] = c] => content'[b] = c
  BY DEF Inv, TypeOK
<1> QED
  BY <1>5, <1>6, <1>7, <1>8 DEF ReadManifest

LEMMA ReadBrepInv ==
  ASSUME Inv, NEW b \in Builder, ReadBrep(b)
  PROVE  Inv'
<1> DEFINE s == next[b]
           c == [content[b] EXCEPT ![s].brep = parts[s]]
<1>1. bpc[b] = "brep" /\ BuilderReads /\ UNCHANGED next
  BY DEF ReadBrep
<1>2. content[b] \in Content /\ s \in Sample /\ content[b][s] \in [brep : Order, cloud : Order]
  BY <1>1 DEF Inv, TypeOK, BuilderInv, Included, Content, Entry
<1>3. CASE GoBuilder(b, "error") /\ UNCHANGED content
  BY <1>1, <1>3, GoesOnInv DEF BuilderPC, Told, Choosing
<1>4. CASE Readable(s) /\ content' = [content EXCEPT ![b] = c] /\ GoBuilder(b, "cloud")
  <2>1. parts[s] \in Order
    BY <1>2, <1>4 DEF Readable, Inv, TypeOK
  <2>2. c[s] \in [brep : Order, cloud : Order] /\ \A x \in Sample \ {s} : c[x] = content[b][x]
    BY <1>2, <2>1 DEF Content
  <2>3. c \in Content /\ s \in Included(c)
    BY <1>2, <2>2, Records DEF Content, Included
  <2>4. content'[b] = c /\ content' \in [Builder -> Content] /\ \A d \in Builder \ {b} : content'[d] = content[d]
    <3> HIDE DEF c
    <3> QED BY <1>4, <2>3 DEF Inv, TypeOK
  <2>5. BuilderInv(b)'
    <3>1. bpc'[b] = "cloud" /\ next'[b] = s
      BY <1>1, <1>4 DEF GoBuilder, Inv, TypeOK
    <3> HIDE DEF c, s
    <3> QED BY <2>3, <2>4, <3>1 DEF BuilderInv, Choosing, Told, Included
  <2> HIDE DEF c, s
  <2> QED
    BY <1>1, <1>4, <2>4, <2>5, ReadsAlone DEF BuilderPC, Told, Inv, TypeOK
<1> QED
  BY <1>3, <1>4 DEF ReadBrep

LEMMA ReadCloudInv ==
  ASSUME Inv, NEW b \in Builder, ReadCloud(b)
  PROVE  Inv'
<1> DEFINE s == next[b]
           c == [content[b] EXCEPT ![s].cloud = parts[s]]
<1>1. bpc[b] = "cloud" /\ BuilderReads
  BY DEF ReadCloud
<1>2. content[b] \in Content /\ s \in Sample /\ s \in Nat /\ content[b][s] \in [brep : Order, cloud : Order]
  BY <1>1 DEF Inv, TypeOK, BuilderInv, Included, Content, Entry, Sample
<1>3. CASE GoBuilder(b, "error") /\ UNCHANGED <<next, content>>
  BY <1>1, <1>3, GoesOnInv DEF BuilderPC, Told, Choosing
<1>4. CASE /\ Readable(s) /\ Covers(parts[s], content[b][s].brep) /\ content' = [content EXCEPT ![b] = c]
           /\ Pass(b, Included(content[b]), s, "brep", "exists")
  <2>1. parts[s] \in Order
    BY <1>2, <1>4 DEF Readable, Inv, TypeOK
  <2>2. c[s] \in [brep : Order, cloud : Order] /\ \A x \in Sample \ {s} : c[x] = content[b][x]
    BY <1>2, <2>1 DEF Content
  <2>3. c \in Content /\ Included(content[b]) \subseteq Included(c)
    BY <1>2, <2>2, Records DEF Content, Included
  <2> HIDE DEF c, s
  <2> QED
    BY <1>1, <1>2, <1>4, <2>3, PassInv DEF Told
<1> QED
  BY <1>3, <1>4 DEF ReadCloud

LEMMA LookInv ==
  ASSUME Inv, NEW b \in Builder, LookForVersion(b) \/ LookForRow(b)
  PROVE  Inv'
<1>1. content[b] \in Content
  BY DEF Inv, TypeOK
<1>2. CASE LookForVersion(b)
  <2> DEFINE label == IF dataset[content[b]] # None THEN Stored(b) ELSE After(b, "exists")
  <2>1. label \in BuilderPC \ (Told \cup {"manifest", "brep", "cloud"}) /\ label # "dataset"
    BY DEF Stored, After, BuilderPC, Told
  <2>2. label \in Choosing => dataset[content[b]] # None
    BY DEF After, Choosing
  <2> QED
    BY <1>2, <2>1, <2>2, GoesOnInv DEF LookForVersion
<1>3. CASE LookForRow(b)
  <2> DEFINE label == IF content[b] \in listed THEN "known" ELSE "insert"
  <2>1. label \in BuilderPC \ (Told \cup {"manifest", "brep", "cloud"}) /\ label # "dataset"
    BY DEF BuilderPC, Told
  <2>2. dataset[content[b]] # None
    BY <1>3 DEF LookForRow, Inv, BuilderInv, Choosing
  <2> QED
    BY <1>3, <2>1, <2>2, GoesOnInv DEF LookForRow
<1> QED
  BY <1>2, <1>3

LEMMA PutLabelsInv ==
  ASSUME Inv, NEW b \in Builder, PutLabels(b)
  PROVE  Inv'
<1>1. content[b] \in Content /\ bpc[b] = "labels" /\ bpc' = [bpc EXCEPT ![b] = "dataset"]
  BY DEF Inv, TypeOK, PutLabels, GoBuilder, After
<1>2. labels' = labels \cup {content[b]} /\ UNCHANGED dataset /\ BuilderWrites
  BY DEF PutLabels
<1>3. TypeOK'
  <2>1. labels' \in SUBSET Content /\ bpc' \in [Builder -> BuilderPC]
    BY <1>1, <1>2 DEF Inv, TypeOK, BuilderPC
  <2> QED
    BY <1>2, <2>1 DEF Inv, TypeOK, BuilderWrites, sampleVars, runVars, trainerVars, readerVars
<1>4. VersionInv'
  BY <1>1, <1>2 DEF Inv, TypeOK, VersionInv, BuilderWrites, Told
<1>5. BuilderInv(b)'
  BY <1>1, <1>2 DEF Inv, TypeOK, BuilderInv, BuilderWrites, Told, Choosing
<1> QED
  BY <1>1, <1>2, <1>3, <1>4, <1>5, BuilderAlone DEF BuilderWrites, Inv, TypeOK

LEMMA PutDatasetInv ==
  ASSUME Inv, NEW b \in Builder, PutDataset(b)
  PROVE  Inv'
<1>1. content[b] \in Content /\ bpc[b] = "dataset" /\ content[b] \in labels
  BY DEF Inv, TypeOK, PutDataset, BuilderInv
<1>2. dataset' = [dataset EXCEPT ![content[b]] = b] /\ UNCHANGED labels /\ BuilderWrites
  BY DEF PutDataset
<1>3. PICK label \in {"row", "known"} : bpc' = [bpc EXCEPT ![b] = label]
  BY DEF PutDataset, GoBuilder, After, Stored
<1>4. TypeOK'
  <2>1. dataset' \in [Content -> Builder \cup {None}] /\ bpc' \in [Builder -> BuilderPC]
    BY <1>1, <1>2, <1>3 DEF Inv, TypeOK, BuilderPC
  <2> QED
    BY <1>2, <2>1 DEF Inv, TypeOK, BuilderWrites, sampleVars, runVars, trainerVars, readerVars
<1>5. b # None
  OBVIOUS
<1>6. dataset'[content[b]] = b /\ \A v \in Content \ {content[b]} : dataset'[v] = dataset[v]
  BY <1>1, <1>2 DEF Inv, TypeOK
<1>7. VersionInv'
  BY <1>1, <1>2, <1>3, <1>5, <1>6 DEF Inv, TypeOK, VersionInv, BuilderWrites, Told
<1>8. BuilderInv(b)'
  BY <1>1, <1>2, <1>3, <1>5, <1>6 DEF Inv, TypeOK, BuilderInv, BuilderWrites, Told, Choosing
<1> QED
  BY <1>1, <1>2, <1>3, <1>4, <1>5, <1>6, <1>7, <1>8, BuilderAlone DEF BuilderWrites, Inv, TypeOK

LEMMA InsertRowInv ==
  ASSUME Inv, NEW b \in Builder, InsertRow(b)
  PROVE  Inv'
<1>1. content[b] \in Content /\ bpc[b] = "insert" /\ dataset[content[b]] # None
  BY DEF Inv, TypeOK, InsertRow, BuilderInv, Choosing
<1>2. UNCHANGED <<labels, dataset, sampleVars, crashes, runVars, viaApi, next, content, trainerVars, readerVars>>
  BY DEF InsertRow
<1>3. \/ content[b] \notin listed /\ listed' = listed \cup {content[b]} /\ bpc' = [bpc EXCEPT ![b] = "answer"]
      \/ listed' = listed /\ bpc' = [bpc EXCEPT ![b] = "error"]
  BY DEF InsertRow, GoBuilder
<1>4. TypeOK'
  <2>1. listed' \in SUBSET Content /\ bpc' \in [Builder -> BuilderPC]
    BY <1>1, <1>3 DEF Inv, TypeOK, BuilderPC
  <2> QED
    BY <1>2, <2>1 DEF Inv, TypeOK, sampleVars, runVars, trainerVars, readerVars
<1>5. \A c \in Builder : bpc[c] \in Told => content[c] \in listed
  BY DEF Inv, BuilderInv
<1>6. VersionInv'
  <2>1. \A c \in Builder \ {b} : bpc'[c] = bpc[c]
    BY <1>3 DEF Inv, TypeOK
  <2>2. bpc'[b] \in Told => content[b] \notin listed
    BY <1>3 DEF Inv, TypeOK, Told
  <2>3. \A v \in listed' : dataset[v] # None
    BY <1>1, <1>3 DEF Inv, VersionInv
  <2> QED
    BY <1>2, <1>5, <2>1, <2>2, <2>3 DEF Inv, VersionInv
<1>7. BuilderInv(b)'
  BY <1>1, <1>2, <1>3 DEF Inv, TypeOK, BuilderInv, Told, Choosing
<1> QED
  BY <1>1, <1>2, <1>3, <1>4, <1>6, <1>7, BuilderAlone DEF Inv, TypeOK

LEMMA AnswerCreatedInv ==
  ASSUME Inv, NEW b \in Builder, AnswerCreated(b)
  PROVE  Inv'
<1>1. BuilderReads /\ UNCHANGED <<next, content>> /\ bpc[b] \in Told /\ GoBuilder(b, "created")
  BY DEF AnswerCreated, Told
<1>2. BuilderInv(b)'
  BY <1>1 DEF Inv, TypeOK, BuilderInv, BuilderReads, versionVars, GoBuilder, Told, Choosing
<1>3. "created" \in BuilderPC /\ content' \in [Builder -> Content] /\ next' \in [Builder -> Sample]
  BY <1>1 DEF BuilderPC, Inv, TypeOK
<1> QED
  BY <1>1, <1>2, <1>3, ReadsAlone

LEMMA BuilderCrashInv ==
  ASSUME Inv, NEW b \in Builder, BuilderCrash(b)
  PROVE  Inv'
<1>1. /\ bpc' = [bpc EXCEPT ![b] = "dead"] /\ crashes' = crashes + 1 /\ crashes < MaxCrashes
      /\ UNCHANGED <<sampleVars, versionVars, runVars, viaApi, next, content, trainerVars, readerVars>>
  BY DEF BuilderCrash, GoBuilder
<1>2. TypeOK'
  <2>1. bpc' \in [Builder -> BuilderPC] /\ crashes' \in 0 .. MaxCrashes
    BY <1>1 DEF Inv, TypeOK, BuilderPC
  <2> QED
    BY <1>1, <2>1 DEF Inv, TypeOK, sampleVars, versionVars, runVars, trainerVars, readerVars
<1>3. VersionInv' /\ BuilderInv(b)'
  BY <1>1 DEF Inv, TypeOK, VersionInv, BuilderInv, Told, Choosing, versionVars
<1> QED
  BY <1>1, <1>2, <1>3, BuilderAlone DEF Inv, TypeOK, versionVars

LEMMA BuilderStepInv ==
  ASSUME Inv, NEW b \in Builder, BuilderStep(b)
  PROVE  Inv'
BY ListManifestsInv, ReadManifestInv, ReadBrepInv, ReadCloudInv, LookInv, PutLabelsInv,
   PutDatasetInv, InsertRowInv, AnswerCreatedInv, BuilderCrashInv DEF BuilderStep
--------------------------------------------------------------------------------
(* A step of one trainer, which takes nothing from the store.              *)
LEMMA TrainerAlone ==
  ASSUME Inv, NEW t \in Trainer, TypeOK', TrainerInv(t)', RunInv',
         UNCHANGED <<sampleVars, versionVars, builderVars, readerVars>>,
         \A v \in Content : /\ checkpoint[v] # None => checkpoint'[v] # None
                            /\ predictions[v] # None => predictions'[v] # None
                            /\ experiment[v] # None => experiment'[v] # None,
         \A u \in Trainer \ {t} : /\ tpc'[u] = tpc[u] /\ target'[u] = target[u]
                                  /\ from'[u] = from[u] /\ graphs'[u] = graphs[u]
  PROVE  Inv'
<1>1. SampleInv' /\ VersionInv'
  BY DEF Inv, SampleInv, VersionInv, sampleVars, versionVars, builderVars
<1>2. ASSUME NEW b \in Builder PROVE BuilderInv(b)'
  BY DEF Inv, BuilderInv, versionVars, builderVars
<1>3. ASSUME NEW u \in Trainer PROVE TrainerInv(u)'
  <2>1. target[u] \in Content \cup {None}
    BY DEF Inv, TypeOK
  <2>2. CASE u # t
    BY <2>1, <2>2 DEF Inv, TrainerInv, Loaded, Writing, versionVars
  <2> QED
    BY <2>2
<1>4. ASSUME NEW r \in Reader PROVE ReaderInv(r)'
  <2>1. run[r] \in Content \cup {None}
    BY DEF Inv, TypeOK
  <2> QED
    BY <2>1 DEF Inv, ReaderInv, Reading, sampleVars, readerVars
<1> QED
  BY <1>1, <1>2, <1>3, <1>4 DEF Inv

(* A trainer that writes no file: if it had recorded its run it is done.   *)
LEMMA TrainsAlone ==
  ASSUME Inv, NEW t \in Trainer, TrainerReads, tpc[t] # "done", TrainerInv(t)',
         NEW label \in TrainerPC, GoTrainer(t, label),
         target' \in [Trainer -> Content \cup {None}], from' \in [Trainer -> Sample],
         graphs' \in [Trainer -> [Sample -> Order \cup {None}]],
         \A u \in Trainer \ {t} : target'[u] = target[u] /\ from'[u] = from[u] /\ graphs'[u] = graphs[u]
  PROVE  Inv'
<1>1. tpc' \in [Trainer -> TrainerPC] /\ \A u \in Trainer \ {t} : tpc'[u] = tpc[u]
  BY DEF Inv, TypeOK, GoTrainer
<1>2. TypeOK'
  BY <1>1 DEF Inv, TypeOK, TrainerReads, sampleVars, versionVars, runVars, builderVars, readerVars
<1>3. RunInv'
  <2>1. \A v \in Content : experiment[v] \in Trainer \cup {None}
    BY DEF Inv, TypeOK
  <2> QED
    BY <1>1, <2>1 DEF Inv, RunInv, TrainerReads, runVars
<1>4. UNCHANGED <<sampleVars, versionVars, runVars, builderVars, readerVars>>
  BY DEF TrainerReads
<1> QED
  BY <1>1, <1>2, <1>3, <1>4, TrainerAlone DEF runVars

LEMMA IncludedIsNat ==
  ASSUME NEW v \in Content, NEW S \in SUBSET Included(v), S # {}
  PROVE  Least(S) \in S /\ Least(S) \in Included(v) /\ \A y \in S : Least(S) <= y
<1>1. S \in SUBSET Nat
  BY DEF Included, Sample
<1> QED
  BY <1>1, LeastIsLeast

LEMMA StartTrainingInv ==
  ASSUME Inv, NEW t \in Trainer, StartTraining(t)
  PROVE  Inv'
<1>1. PICK v \in Content : dataset[v] # None /\ target' = [target EXCEPT ![t] = v]
  BY DEF StartTraining
<1>2. tpc[t] = "new" /\ GoTrainer(t, "dataset") /\ UNCHANGED <<from, graphs>> /\ TrainerReads
  BY DEF StartTraining
<1>3. v # None
  OBVIOUS
<1>4. TrainerInv(t)'
  BY <1>1, <1>2, <1>3 DEF Inv, TypeOK, TrainerInv, GoTrainer, TrainerReads, versionVars, Writing
<1>5. /\ target' \in [Trainer -> Content \cup {None}] /\ from' \in [Trainer -> Sample]
      /\ graphs' \in [Trainer -> [Sample -> Order \cup {None}]]
      /\ \A u \in Trainer \ {t} : target'[u] = target[u]
  BY <1>1, <1>2 DEF Inv, TypeOK
<1> QED
  BY <1>2, <1>4, <1>5, TrainsAlone DEF TrainerPC

LEMMA TrainerFailsInv ==
  ASSUME Inv, NEW t \in Trainer, TrainerReads, tpc[t] # "done", GoTrainer(t, "error"),
         UNCHANGED <<target, from, graphs>>
  PROVE  Inv'
<1>1. TrainerInv(t)'
  BY DEF Inv, TypeOK, TrainerInv, GoTrainer, Writing
<1> QED
  BY <1>1, TrainsAlone DEF TrainerPC, Inv, TypeOK

LEMMA LoadLabelsInv ==
  ASSUME Inv, NEW t \in Trainer, LoadLabels(t)
  PROVE  Inv'
<1> DEFINE v == target[t]
           first == Least(Included(v))
<1>1. tpc[t] = "dataset" /\ UNCHANGED <<target, graphs>> /\ TrainerReads
  BY DEF LoadLabels
<1>2. v \in Content /\ dataset[v] # None
  BY <1>1 DEF Inv, TypeOK, TrainerInv
<1>3. CASE v \in labels /\ Included(v) # {} /\ from' = [from EXCEPT ![t] = first] /\ GoTrainer(t, "graph")
  <2>1. first \in Included(v) /\ \A y \in Included(v) : first <= y
    BY <1>2, <1>3, IncludedIsNat
  <2>2. first \in Sample
    BY <2>1 DEF Included
  <2>3. \A y \in Included(v) : ~ (y < first)
    BY <2>1, <2>2 DEF Included, Sample
  <2> HIDE DEF first
  <2>4. from' \in [Trainer -> Sample] /\ from'[t] = first /\ \A u \in Trainer \ {t} : from'[u] = from[u]
    BY <1>3, <2>2 DEF Inv, TypeOK
  <2>5. tpc'[t] = "graph"
    BY <1>3 DEF Inv, TypeOK, GoTrainer
  <2>6. v # None
    BY <1>1 DEF Inv, TrainerInv
  <2>7. TrainerInv(t)'
    BY <1>1, <1>2, <1>3, <2>1, <2>3, <2>4, <2>5, <2>6 DEF TrainerInv, TrainerReads, versionVars, Writing
  <2> QED
    BY <1>1, <1>3, <2>4, <2>7, TrainsAlone DEF TrainerPC, Inv, TypeOK
<1>4. CASE GoTrainer(t, "error") /\ UNCHANGED from
  BY <1>1, <1>4, TrainerFailsInv
<1> QED
  BY <1>3, <1>4 DEF LoadLabels

LEMMA LoadGraphInv ==
  ASSUME Inv, NEW t \in Trainer, LoadGraph(t)
  PROVE  Inv'
<1> DEFINE v == target[t]
           s == from[t]
           rest == Following(Included(v), s)
<1>1. tpc[t] = "graph" /\ UNCHANGED target /\ TrainerReads
  BY DEF LoadGraph
<1>2. v \in Content /\ v # None /\ dataset[v] # None /\ v \in labels /\ s \in Included(v) /\ s \in Sample
  BY <1>1 DEF Inv, TypeOK, TrainerInv
<1>3. \A x \in Included(v) : x < s => Loaded(t, x)
  BY <1>1 DEF Inv, TrainerInv
<1>4. rest \subseteq Included(v) /\ rest = { x \in Included(v) : x > s } /\ Included(v) \subseteq Nat
  BY DEF Following, Included, Sample
<1>5. CASE GoTrainer(t, "error") /\ UNCHANGED <<graphs, from>>
  BY <1>1, <1>5, TrainerFailsInv
<1>6. CASE parts[s] # None /\ Aligned(t, s) /\ graphs' = [graphs EXCEPT ![t][s] = parts[s]]
  <2>1. graphs' \in [Trainer -> [Sample -> Order \cup {None}]] /\ \A u \in Trainer \ {t} : graphs'[u] = graphs[u]
    BY <1>2, <1>6 DEF Inv, TypeOK
  <2>2. graphs'[t][s] = parts[s] /\ \A x \in Sample \ {s} : graphs'[t][x] = graphs[t][x]
    BY <1>2, <1>6 DEF Inv, TypeOK
  <2>3. \A x \in Included(v) : x <= s => NumFaces[graphs'[t][x]] = NumFaces[v[x].brep]
    <3>1. NumFaces[graphs'[t][s]] = NumFaces[v[s].brep]
      BY <1>6, <2>2 DEF Aligned
    <3>2. ASSUME NEW x \in Included(v), x < s PROVE NumFaces[graphs'[t][x]] = NumFaces[v[x].brep]
      <4>1. x \in Sample \ {s} /\ Loaded(t, x)
        BY <1>2, <1>3, <1>4, <3>2 DEF Included, Sample
      <4> QED
        BY <2>2, <4>1 DEF Loaded
    <3> HIDE DEF v, s
    <3> QED
      BY <1>2, <1>4, <3>1, <3>2 DEF Sample
  <2> HIDE DEF v, s
  <2>4. CASE rest = {} /\ GoTrainer(t, "checkpoint") /\ UNCHANGED from
    <3>1. \A x \in Included(v) : NumFaces[graphs'[t][x]] = NumFaces[v[x].brep]
      BY <1>2, <1>4, <2>3, <2>4 DEF Sample
    <3>2. tpc'[t] = "checkpoint" /\ target'[t] = v
      BY <1>1, <2>4 DEF Inv, TypeOK, GoTrainer, v
    <3>3. TrainerInv(t)'
      BY <1>1, <1>2, <3>1, <3>2 DEF TrainerInv, TrainerReads, versionVars, Writing, Loaded
    <3> QED
      BY <1>1, <2>1, <2>4, <3>3, TrainsAlone DEF TrainerPC, Inv, TypeOK
  <2>5. CASE rest # {} /\ from' = [from EXCEPT ![t] = Least(rest)] /\ UNCHANGED tpc
    <3> DEFINE n == Least(rest)
    <3>1. n \in rest /\ \A y \in rest : n <= y
      BY <1>2, <1>4, <2>5, IncludedIsNat
    <3> HIDE DEF n, rest
    <3>2. n \in Included(v) /\ n \in Sample /\ n \in Nat
      BY <1>4, <3>1 DEF Included
    <3>3. \A x \in Included(v) : x < n => x <= s
      BY <1>2, <1>4, <3>1, <3>2 DEF Sample
    <3>4. from' \in [Trainer -> Sample] /\ from'[t] = n /\ \A u \in Trainer \ {t} : from'[u] = from[u]
      BY <2>5, <3>2 DEF Inv, TypeOK, n
    <3>5. tpc' = [tpc EXCEPT ![t] = "graph"] /\ target'[t] = v
      BY <1>1, <2>5 DEF Inv, TypeOK, v
    <3>6. tpc'[t] = "graph"
      BY <3>5 DEF Inv, TypeOK
    <3>7. TrainerInv(t)'
      BY <1>1, <1>2, <2>3, <3>2, <3>3, <3>4, <3>5, <3>6 DEF TrainerInv, TrainerReads, versionVars, Writing, Loaded
    <3> QED
      BY <1>1, <2>1, <3>4, <3>5, <3>7, TrainsAlone DEF TrainerPC, Inv, TypeOK, GoTrainer
  <2> QED
    BY <1>6, <2>4, <2>5 DEF LoadGraph, v, s
<1> QED
  BY <1>5, <1>6 DEF LoadGraph
LEMMA PutCheckpointInv ==
  ASSUME Inv, NEW t \in Trainer, PutCheckpoint(t)
  PROVE  Inv'
<1> DEFINE v == target[t]
<1>1. /\ tpc[t] = "checkpoint" /\ checkpoint' = [checkpoint EXCEPT ![v] = t]
      /\ UNCHANGED <<predictions, experiment>> /\ TrainerWrites /\ tpc' = [tpc EXCEPT ![t] = "predictions"]
  BY DEF PutCheckpoint, WrittenBy, GoTrainer
<1>2. v \in Content /\ t # None
  BY <1>1 DEF Inv, TypeOK, TrainerInv, Writing
<1>3. checkpoint' \in [Content -> Trainer \cup {None}] /\ tpc' \in [Trainer -> TrainerPC]
  BY <1>1, <1>2 DEF Inv, TypeOK, TrainerPC
<1>4. checkpoint'[v] = t /\ tpc'[t] = "predictions" /\ \A u \in Trainer \ {t} : tpc'[u] = tpc[u]
  BY <1>1, <1>2 DEF Inv, TypeOK
<1>5. \A w \in Content : checkpoint[w] # None => checkpoint'[w] # None
  BY <1>1, <1>2 DEF Inv, TypeOK
<1> HIDE DEF v
<1>6. TypeOK'
  BY <1>1, <1>3 DEF Inv, TypeOK, TrainerWrites, sampleVars, versionVars, builderVars, readerVars
<1>7. TrainerInv(t)'
  BY <1>1, <1>2, <1>4 DEF Inv, TrainerInv, TrainerWrites, versionVars, Writing, Loaded, v
<1>8. RunInv'
  <2>1. \A w \in Content : experiment[w] \in Trainer \cup {None}
    BY DEF Inv, TypeOK
  <2> QED
    BY <1>1, <1>4, <2>1 DEF Inv, RunInv, TrainerWrites
<1> QED
  BY <1>1, <1>4, <1>5, <1>6, <1>7, <1>8, TrainerAlone DEF TrainerWrites

LEMMA PutPredictionsInv ==
  ASSUME Inv, NEW t \in Trainer, PutPredictions(t)
  PROVE  Inv'
<1> DEFINE v == target[t]
<1>1. /\ tpc[t] = "predictions" /\ predictions' = [predictions EXCEPT ![v] = t]
      /\ UNCHANGED <<checkpoint, experiment>> /\ TrainerWrites /\ tpc' = [tpc EXCEPT ![t] = "experiment"]
  BY DEF PutPredictions, WrittenBy, GoTrainer
<1>2. v \in Content /\ t # None
  BY <1>1 DEF Inv, TypeOK, TrainerInv, Writing
<1>3. predictions' \in [Content -> Trainer \cup {None}] /\ tpc' \in [Trainer -> TrainerPC]
  BY <1>1, <1>2 DEF Inv, TypeOK, TrainerPC
<1>4. predictions'[v] = t /\ tpc'[t] = "experiment" /\ \A u \in Trainer \ {t} : tpc'[u] = tpc[u]
  BY <1>1, <1>2 DEF Inv, TypeOK
<1>5. \A w \in Content : predictions[w] # None => predictions'[w] # None
  BY <1>1, <1>2 DEF Inv, TypeOK
<1> HIDE DEF v
<1>6. TypeOK'
  BY <1>1, <1>3 DEF Inv, TypeOK, TrainerWrites, sampleVars, versionVars, builderVars, readerVars
<1>7. TrainerInv(t)'
  BY <1>1, <1>2, <1>4 DEF Inv, TrainerInv, TrainerWrites, versionVars, Writing, Loaded, v
<1>8. RunInv'
  <2>1. \A w \in Content : experiment[w] \in Trainer \cup {None}
    BY DEF Inv, TypeOK
  <2> QED
    BY <1>1, <1>4, <2>1 DEF Inv, RunInv, TrainerWrites
<1> QED
  BY <1>1, <1>4, <1>5, <1>6, <1>7, <1>8, TrainerAlone DEF TrainerWrites

LEMMA PutExperimentInv ==
  ASSUME Inv, NEW t \in Trainer, PutExperiment(t)
  PROVE  Inv'
<1> DEFINE v == target[t]
<1>1. /\ tpc[t] = "experiment" /\ experiment' = [experiment EXCEPT ![v] = t]
      /\ UNCHANGED <<checkpoint, predictions>> /\ TrainerWrites /\ tpc' = [tpc EXCEPT ![t] = "done"]
  BY DEF PutExperiment, WrittenBy, GoTrainer
<1>2. v \in Content /\ t # None
  BY <1>1 DEF Inv, TypeOK, TrainerInv, Writing
<1>3. experiment' \in [Content -> Trainer \cup {None}] /\ tpc' \in [Trainer -> TrainerPC]
  BY <1>1, <1>2 DEF Inv, TypeOK, TrainerPC
<1>4. /\ experiment'[v] = t /\ \A w \in Content \ {v} : experiment'[w] = experiment[w]
      /\ tpc'[t] = "done" /\ \A u \in Trainer \ {t} : tpc'[u] = tpc[u]
  BY <1>1, <1>2 DEF Inv, TypeOK
<1> HIDE DEF v
<1>5. \A w \in Content : experiment[w] # None => experiment'[w] # None
  BY <1>2, <1>4
<1>6. TypeOK'
  BY <1>1, <1>3 DEF Inv, TypeOK, TrainerWrites, sampleVars, versionVars, builderVars, readerVars
<1>7. TrainerInv(t)'
  BY <1>1, <1>2, <1>4 DEF Inv, TrainerInv, TrainerWrites, versionVars, Writing, Loaded, v
<1>8. RunInv'
  <2>1. \A w \in Content : experiment[w] \in Trainer \cup {None}
    BY DEF Inv, TypeOK
  <2> QED
    BY <1>1, <1>4, <2>1 DEF Inv, RunInv, TrainerWrites, v
<1> QED
  BY <1>1, <1>4, <1>5, <1>6, <1>7, <1>8, TrainerAlone DEF TrainerWrites

LEMMA TrainerCrashInv ==
  ASSUME Inv, NEW t \in Trainer, TrainerCrash(t)
  PROVE  Inv'
<1>1. /\ tpc[t] # "done" /\ crashes' = crashes + 1 /\ crashes < MaxCrashes /\ tpc' = [tpc EXCEPT ![t] = "dead"]
      /\ UNCHANGED <<sampleVars, versionVars, runVars, builderVars, target, from, graphs, readerVars>>
  BY DEF TrainerCrash, GoTrainer
<1>2. /\ tpc' \in [Trainer -> TrainerPC] /\ crashes' \in 0 .. MaxCrashes
      /\ tpc'[t] = "dead" /\ \A u \in Trainer \ {t} : tpc'[u] = tpc[u]
  BY <1>1 DEF Inv, TypeOK, TrainerPC
<1>3. TypeOK'
  BY <1>1, <1>2 DEF Inv, TypeOK, sampleVars, versionVars, runVars, builderVars, readerVars
<1>4. RunInv'
  <2>1. \A w \in Content : experiment[w] \in Trainer \cup {None}
    BY DEF Inv, TypeOK
  <2> QED
    BY <1>1, <1>2, <2>1 DEF Inv, RunInv, runVars
<1>5. TrainerInv(t)'
  BY <1>2 DEF TrainerInv, Writing
<1> QED
  BY <1>1, <1>2, <1>3, <1>4, <1>5, TrainerAlone DEF runVars

LEMMA TrainerStepInv ==
  ASSUME Inv, NEW t \in Trainer, TrainerStep(t)
  PROVE  Inv'
BY StartTrainingInv, LoadLabelsInv, LoadGraphInv, PutCheckpointInv, PutPredictionsInv,
   PutExperimentInv, TrainerCrashInv DEF TrainerStep
--------------------------------------------------------------------------------
(* A request changes nothing but its own label and locals.                 *)
LEMMA ReaderAlone ==
  ASSUME Inv, NEW r \in Reader, ReaderReads, ReaderInv(r)',
         run' \in [Reader -> Content \cup {None}], sample' \in [Reader -> Sample \cup {None}],
         rpc' \in [Reader -> ReaderPC], early' \in [Reader -> BOOLEAN], disturbed' = disturbed,
         \A q \in Reader \ {r} : /\ rpc'[q] = rpc[q] /\ run'[q] = run[q]
                                 /\ sample'[q] = sample[q] /\ early'[q] = early[q]
  PROVE  Inv'
<1>1. TypeOK'
  <2>1. disturbed' \in [Reader -> BOOLEAN]
    BY Zenon DEF Inv, TypeOK
  <2> QED
    BY <2>1 DEF Inv, TypeOK, ReaderReads, sampleVars, versionVars, runVars, builderVars, trainerVars
<1>2. SampleInv' /\ VersionInv' /\ RunInv'
  BY DEF Inv, SampleInv, VersionInv, RunInv, ReaderReads, sampleVars, versionVars, runVars, builderVars, trainerVars
<1>3. ASSUME NEW b \in Builder PROVE BuilderInv(b)'
  BY DEF Inv, BuilderInv, ReaderReads, versionVars, builderVars
<1>4. ASSUME NEW t \in Trainer PROVE TrainerInv(t)'
  BY DEF Inv, TrainerInv, Loaded, ReaderReads, versionVars, runVars, trainerVars
<1>5. ASSUME NEW q \in Reader PROVE ReaderInv(q)'
  <2>1. CASE q # r
    BY <2>1 DEF Inv, ReaderInv, Reading, ReaderReads, sampleVars, runVars
  <2> QED
    BY <2>1
<1> QED
  BY <1>1, <1>2, <1>3, <1>4, <1>5 DEF Inv

(* A request that goes on with the run and the sample it has.              *)
LEMMA ReaderGoesOn ==
  ASSUME Inv, NEW r \in Reader, NEW label \in ReaderPC, GoReader(r, label), Reading(r), Locals, ReaderReads,
         label \in {"manifest", "model", "graph"} => disturbed[r] \/ manifest[sample[r]] # "none",
         label \in {"model", "graph"} => disturbed[r] \/ manifest[sample[r]] = "completed",
         label = "error" => early[r] \/ disturbed[r]
  PROVE  Inv'
<1>1. rpc' \in [Reader -> ReaderPC] /\ rpc'[r] = label /\ \A q \in Reader \ {r} : rpc'[q] = rpc[q]
  BY DEF Inv, TypeOK, GoReader
<1>2. ReaderInv(r)'
  BY <1>1 DEF Inv, ReaderInv, Reading, Locals, ReaderReads, sampleVars, runVars
<1>3. early' \in [Reader -> BOOLEAN]
  BY Zenon DEF Inv, TypeOK, Locals
<1> QED
  BY <1>1, <1>2, <1>3, ReaderAlone DEF Inv, TypeOK, Locals

LEMMA AskForPredictionsInv ==
  ASSUME Inv, NEW r \in Reader, AskForPredictions(r)
  PROVE  Inv'
<1>1. PICK v \in { target[t] : t \in Trainer } \ {None}, s \in Sample :
       /\ run' = [run EXCEPT ![r] = v] /\ sample' = [sample EXCEPT ![r] = s]
       /\ early' = [early EXCEPT ![r] = experiment[v] = None]
       /\ GoReader(r, IF checkpoint[v] = None THEN "unfinished" ELSE "status")
  BY Zenon DEF AskForPredictions
<1>2. disturbed' = disturbed /\ ReaderReads
  BY DEF AskForPredictions
<1>3. v \in Content /\ v # None /\ s \in Sample
  BY <1>1 DEF Inv, TypeOK
<1>4. early' \in [Reader -> BOOLEAN] /\ (early'[r] <=> experiment[v] = None) /\ \A q \in Reader \ {r} : early'[q] = early[q]
  <2>1. early \in [Reader -> BOOLEAN] /\ (experiment[v] = None) \in BOOLEAN
    BY Zenon DEF Inv, TypeOK
  <2> QED
    BY <1>1, <2>1, Zenon
<1>5. /\ run' \in [Reader -> Content \cup {None}] /\ sample' \in [Reader -> Sample \cup {None}]
      /\ rpc' \in [Reader -> ReaderPC] /\ run'[r] = v /\ sample'[r] = s
      /\ \A q \in Reader \ {r} : rpc'[q] = rpc[q] /\ run'[q] = run[q] /\ sample'[q] = sample[q]
  BY <1>1, <1>3 DEF Inv, TypeOK, GoReader, ReaderPC
<1>6. rpc'[r] = IF checkpoint[v] = None THEN "unfinished" ELSE "status"
  BY <1>1 DEF Inv, TypeOK, GoReader
<1>7. ReaderInv(r)'
  BY <1>2, <1>3, <1>4, <1>5, <1>6 DEF ReaderInv, Reading, ReaderReads, runVars
<1> QED
  BY <1>2, <1>4, <1>5, <1>7, ReaderAlone
LEMMA ReaderStepInv ==
  ASSUME Inv, NEW r \in Reader, ReaderStep(r)
  PROVE  Inv'
<1>1. CASE AskForPredictions(r)
  BY <1>1, AskForPredictionsInv
<1>2. CASE LookForManifest(r)
  <2> DEFINE label == IF manifest[sample[r]] = "none" THEN "unknown" ELSE "manifest"
  <2>1. label \in ReaderPC /\ label # "error" /\ label \notin {"model", "graph"} /\ Reading(r)
    BY <1>2 DEF ReaderPC, LookForManifest, Reading
  <2> QED
    BY <1>2, <2>1, ReaderGoesOn DEF LookForManifest
<1>3. CASE GetManifest(r)
  <2> DEFINE label == IF manifest[sample[r]] = "none" THEN "error"
                      ELSE IF Usable(sample[r]) THEN "model" ELSE "conflict"
  <2>1. label \in ReaderPC /\ Reading(r)
    BY <1>3 DEF ReaderPC, GetManifest, Reading
  <2>2. disturbed[r] \/ manifest[sample[r]] # "none"
    BY <1>3 DEF GetManifest, Inv, ReaderInv
  <2> QED
    BY <1>3, <2>1, <2>2, ReaderGoesOn DEF GetManifest, Usable
<1>4. CASE LoadModel(r)
  <2>1. Reading(r) /\ (disturbed[r] \/ manifest[sample[r]] # "none")
        /\ (disturbed[r] \/ manifest[sample[r]] = "completed") /\ checkpoint[run[r]] # None
    BY <1>4 DEF LoadModel, Reading, Inv, ReaderInv
  <2>2. GoReader(r, "graph") /\ Locals /\ ReaderReads
    BY <1>4, <2>1 DEF LoadModel
  <2> QED
    BY <2>1, <2>2, ReaderGoesOn DEF ReaderPC
<1>5. CASE GetGraph(r)
  <2> DEFINE label == IF parts[sample[r]] = None THEN "error" ELSE "experiment"
  <2>1. label \in ReaderPC /\ label \notin {"manifest", "model", "graph"} /\ Reading(r)
    BY <1>5 DEF ReaderPC, GetGraph, Reading
  <2>2. label = "error" => disturbed[r]
    BY <1>5, <2>1 DEF GetGraph, Inv, ReaderInv, SampleInv
  <2> QED
    BY <1>5, <2>1, <2>2, ReaderGoesOn DEF GetGraph
<1>6. CASE GetExperiment(r)
  <2> DEFINE label == IF experiment[run[r]] = None THEN "error" ELSE "dataset"
  <2>1. label \in ReaderPC /\ label \notin {"manifest", "model", "graph"} /\ Reading(r)
    BY <1>6 DEF ReaderPC, GetExperiment, Reading
  <2>2. label = "error" => early[r]
    BY <2>1 DEF Inv, ReaderInv
  <2> QED
    BY <1>6, <2>1, <2>2, ReaderGoesOn DEF GetExperiment
<1>7. CASE GetDataset(r)
  <2> DEFINE label == IF dataset[run[r]] = None THEN "error" ELSE "answered"
  <2>1. label \in ReaderPC /\ label \notin {"manifest", "model", "graph"} /\ Reading(r)
    BY <1>7 DEF ReaderPC, GetDataset, Reading
  <2>2. label = "error" => early[r]
    <3>1. run[r] \in Content /\ (early[r] \/ experiment[run[r]] # None)
      BY <2>1 DEF Inv, TypeOK, ReaderInv
    <3>2. experiment[run[r]] # None => experiment[run[r]] \in Trainer
      BY <3>1 DEF Inv, TypeOK
    <3>3. experiment[run[r]] # None => dataset[run[r]] # None
      BY <3>1, <3>2 DEF Inv, RunInv, TrainerInv, Writing
    <3> QED
      BY <3>1, <3>3
  <2> QED
    BY <1>7, <2>1, <2>2, ReaderGoesOn DEF GetDataset
<1> QED
  BY <1>1, <1>2, <1>3, <1>4, <1>5, <1>6, <1>7 DEF ReaderStep

LEMMA NextInv == Inv /\ [Next]_vars => Inv'
<1> SUFFICES ASSUME Inv, [Next]_vars PROVE Inv'
  OBVIOUS
<1>1. CASE UNCHANGED vars
  <2>1. TypeOK'
    BY <1>1 DEF Inv, TypeOK, vars, sampleVars, versionVars, runVars, builderVars, trainerVars, readerVars
  <2>2. VersionInv' /\ SampleInv' /\ RunInv'
    BY <1>1 DEF Inv, VersionInv, SampleInv, RunInv, vars, sampleVars, versionVars, runVars, builderVars, trainerVars
  <2>3. ASSUME NEW b \in Builder PROVE BuilderInv(b)'
    BY <1>1 DEF Inv, BuilderInv, vars, versionVars, builderVars
  <2>4. ASSUME NEW t \in Trainer PROVE TrainerInv(t)'
    BY <1>1 DEF Inv, TrainerInv, Loaded, vars, versionVars, runVars, trainerVars
  <2>5. ASSUME NEW r \in Reader PROVE ReaderInv(r)'
    BY <1>1 DEF Inv, ReaderInv, Reading, vars, sampleVars, runVars, readerVars
  <2> QED
    BY <2>1, <2>2, <2>3, <2>4, <2>5 DEF Inv
<1>2. CASE Next
  BY <1>2, ChangeInv, BuilderStepInv, TrainerStepInv, ReaderStepInv DEF Next
<1> QED
  BY <1>1, <1>2

LEMMA AlwaysInv == Spec => []Inv
<1> QED
  BY InitInv, NextInv, PTL DEF Spec

--------------------------------------------------------------------------------
(* Every variable keeps its type, for any number of samples and actors.    *)
THEOREM TypeCorrect == Spec => []TypeOK
<1>1. Inv => TypeOK
  BY DEF Inv
<1> QED
  BY <1>1, AlwaysInv, PTL

(* A run with an experiment record (train.py) is whole: its checkpoint and *)
(* its predictions are there, so is its version with its labels, and each  *)
(* graph it was trained on has one node for each label of its sample.      *)
THEOREM RecordedRunWhole == Spec => []RecordedRunIsWhole
<1>1. Inv => RecordedRunIsWhole
  <2> SUFFICES ASSUME Inv, NEW v \in Content, experiment[v] # None
      PROVE  /\ checkpoint[v] # None /\ predictions[v] # None
             /\ dataset[v] # None /\ v \in labels
             /\ \A s \in Included(v) : NumFaces[graphs[experiment[v]][s]] = NumFaces[v[s].brep]
    BY DEF RecordedRunIsWhole
  <2> DEFINE t == experiment[v]
  <2>1. t \in Trainer
    BY DEF Inv, TypeOK
  <2>2. tpc[t] = "done" /\ target[t] = v
    BY DEF Inv, RunInv
  <2> QED
    BY <2>1, <2>2 DEF Inv, TrainerInv, Writing, Loaded
<1> QED
  BY <1>1, AlwaysInv, PTL

(* GET .../predictions (apps/api/main.py) of a run whose experiment record *)
(* is there is not answered by an error, unless a sample is replaced while *)
(* the request runs.                                                       *)
THEOREM FinishedAnswers == Spec => []FinishedRunAnswers
<1>1. Inv => FinishedRunAnswers
  BY DEF Inv, ReaderInv, FinishedRunAnswers
<1> QED
  BY <1>1, AlwaysInv, PTL
--------------------------------------------------------------------------------
(* The refinement: what Versions knows of the state.                       *)
VersionState == [v \in Content |-> IF dataset[v] = None THEN "absent"
                                   ELSE IF v \in labels THEN "whole" ELSE "torn"]
ToldOf(v) == { b \in Builder : bpc[b] = "created" /\ content[b] = v }
CreatedCount == [v \in Content |-> Cardinality(ToldOf(v))]

LEMMA InitImplements == Init => Store!Init
<1> SUFFICES ASSUME Init PROVE Store!Init
  OBVIOUS
<1>1. VersionState = [v \in Content |-> "absent"] /\ listed = {}
  BY DEF Init, VersionState
<1>2. CreatedCount = [v \in Content |-> 0]
  <2>1. \A v \in Content : ToldOf(v) = {}
    BY DEF Init, ToldOf
  <2> QED
    BY <2>1, FS_EmptySet DEF CreatedCount
<1> QED
  BY <1>1, <1>2 DEF Store!Init, VersionState, CreatedCount, ToldOf

(* A step in which nobody is told anything.                                *)
LEMMA NobodyTold ==
  ASSUME Inv, \A b \in Builder : (bpc[b] = "created" \/ bpc'[b] = "created") => bpc'[b] = bpc[b] /\ content'[b] = content[b]
  PROVE  CreatedCount' = CreatedCount
<1>1. \A v \in Content : ToldOf(v)' = ToldOf(v)
  BY DEF ToldOf
<1> QED
  BY <1>1 DEF CreatedCount

(* A step of a builder that is not told anything leaves it so.             *)
LEMMA BuilderNotTold ==
  ASSUME Inv, NEW b \in Builder, BuilderStep(b), ~ AnswerCreated(b)
  PROVE  CreatedCount' = CreatedCount
<1>1. \A c \in Builder \ {b} : bpc'[c] = bpc[c] /\ content'[c] = content[c]
  BY DEF BuilderStep, ListManifests, ReadManifest, ReadBrep, ReadCloud, LookForVersion, PutLabels,
         PutDataset, LookForRow, InsertRow, BuilderCrash, GoBuilder, Pass, BuilderWrites, Inv, TypeOK
<1>2. bpc[b] # "created" /\ bpc'[b] # "created"
  BY DEF BuilderStep, ListManifests, ReadManifest, ReadBrep, ReadCloud, LookForVersion, PutLabels,
         PutDataset, LookForRow, InsertRow, BuilderCrash, GoBuilder, Pass, Stored, After, BuilderEnded, Inv, TypeOK
<1> QED
  BY <1>1, <1>2, NobodyTold

LEMMA PutDatasetImplements ==
  ASSUME Inv, NEW b \in Builder, PutDataset(b), CreatedCount' = CreatedCount
  PROVE  \/ /\ VersionState[content[b]] = "absent"
            /\ VersionState'[content[b]] = "whole"
            /\ VersionState' = [VersionState EXCEPT ![content[b]] = "whole"]
            /\ UNCHANGED <<listed, CreatedCount>>
         \/ UNCHANGED <<VersionState, listed, CreatedCount>>
<1>1. content[b] \in Content /\ content[b] \in labels
  BY DEF PutDataset, Inv, TypeOK, BuilderInv
<1>2. dataset' = [dataset EXCEPT ![content[b]] = b] /\ UNCHANGED <<labels, listed>> /\ b # None
  BY DEF PutDataset, BuilderWrites
<1>3. VersionState' = [VersionState EXCEPT ![content[b]] = "whole"]
  BY <1>1, <1>2 DEF VersionState, Inv, TypeOK
<1>4. CASE dataset[content[b]] = None
  <2>1. VersionState[content[b]] = "absent" /\ VersionState'[content[b]] = "whole"
    BY <1>1, <1>3, <1>4 DEF VersionState
  <2> QED
    BY <1>2, <1>3, <2>1
<1>5. CASE dataset[content[b]] # None
  <2>1. VersionState[content[b]] = "whole"
    BY <1>1, <1>5 DEF VersionState
  <2>2. VersionState' = VersionState
    BY <1>1, <1>3, <2>1 DEF VersionState
  <2> QED
    BY <1>2, <2>2
<1> QED
  BY <1>4, <1>5

LEMMA InsertRowImplements ==
  ASSUME Inv, NEW b \in Builder, InsertRow(b), CreatedCount' = CreatedCount
  PROVE  \/ /\ VersionState[content[b]] = "whole" /\ content[b] \notin listed
            /\ listed' = listed \cup {content[b]}
            /\ UNCHANGED <<VersionState, CreatedCount>>
         \/ UNCHANGED <<VersionState, listed, CreatedCount>>
<1>1. content[b] \in Content /\ dataset[content[b]] # None
  BY DEF InsertRow, Inv, TypeOK, BuilderInv, Choosing
<1>2. VersionState[content[b]] = "whole"
  BY <1>1 DEF VersionState, Inv, VersionInv
<1>3. UNCHANGED VersionState
  BY DEF InsertRow, VersionState
<1> QED
  BY <1>2, <1>3 DEF InsertRow

LEMMA AnswerCreatedImplements ==
  ASSUME Inv, NEW b \in Builder, AnswerCreated(b)
  PROVE  /\ content[b] \in listed /\ CreatedCount[content[b]] = 0
         /\ CreatedCount' = [CreatedCount EXCEPT ![content[b]] = 1]
         /\ UNCHANGED <<VersionState, listed>>
<1> PICK v \in Content : v = content[b]
  BY DEF Inv, TypeOK
<1>1. v \in Content /\ v \in listed /\ bpc[b] = "answer"
  BY DEF AnswerCreated, Inv, TypeOK, BuilderInv, Told
<1>2. bpc' = [bpc EXCEPT ![b] = "created"] /\ content' = content /\ UNCHANGED <<labels, dataset, listed>>
  BY DEF AnswerCreated, GoBuilder, BuilderReads, versionVars
<1>3. \A c \in Builder : bpc[c] = "created" /\ content[c] = v => c = b
  BY <1>1 DEF Inv, VersionInv, Told
<1>4. ToldOf(v) = {} /\ ToldOf(v)' = {b}
  BY <1>1, <1>2, <1>3 DEF ToldOf, Inv, TypeOK
<1>5. \A w \in Content \ {v} : ToldOf(w)' = ToldOf(w)
  BY <1>1, <1>2 DEF ToldOf, Inv, TypeOK
<1>6. Cardinality({}) = 0 /\ Cardinality({b}) = 1
  BY FS_EmptySet, FS_Singleton
<1>7. CreatedCount[v] = 0 /\ CreatedCount' = [CreatedCount EXCEPT ![v] = 1]
  <2>1. CreatedCount' = [w \in Content |-> Cardinality(ToldOf(w)')]
    BY DEF CreatedCount
  <2>2. \A w \in Content : Cardinality(ToldOf(w)') = IF w = v THEN 1 ELSE CreatedCount[w]
    BY <1>4, <1>5, <1>6 DEF CreatedCount
  <2> QED
    BY <1>1, <1>4, <1>6, <2>1, <2>2 DEF CreatedCount
<1>8. UNCHANGED <<VersionState, listed>>
  BY <1>2 DEF VersionState
<1> QED
  BY <1>1, <1>7, <1>8

LEMMA StepImplements == Inv /\ [Next]_vars => [Store!Next]_(Store!vars)
<1> SUFFICES ASSUME Inv, [Next]_vars PROVE [Store!Next]_(Store!vars)
  OBVIOUS
<1>1. ASSUME UNCHANGED <<versionVars, bpc, content>> PROVE UNCHANGED <<VersionState, listed, CreatedCount>>
  BY <1>1 DEF versionVars, VersionState, CreatedCount, ToldOf
<1>2. ASSUME UNCHANGED <<VersionState, listed, CreatedCount>> PROVE UNCHANGED Store!vars
  BY <1>2 DEF Store!vars, VersionState, CreatedCount, ToldOf
<1>3. CASE UNCHANGED vars
  BY <1>1, <1>2, <1>3 DEF vars, versionVars, builderVars
<1>4. CASE \E s \in Sample : Supersede(s) \/ Promote(s) \/ FailInPlace(s)
  <2>1. Change
    BY <1>4 DEF Supersede, Promote, FailInPlace
  <2> QED
    BY <1>1, <1>2, <2>1 DEF Change, builderVars
<1>5. CASE \E t \in Trainer : TrainerStep(t)
  BY <1>1, <1>2, <1>5 DEF TrainerStep, StartTraining, LoadLabels, LoadGraph, PutCheckpoint, PutPredictions,
     PutExperiment, TrainerCrash, TrainerReads, TrainerWrites, builderVars
<1>6. CASE \E r \in Reader : ReaderStep(r)
  BY <1>1, <1>2, <1>6 DEF ReaderStep, AskForPredictions, LookForManifest, GetManifest, LoadModel, GetGraph,
     GetExperiment, GetDataset, ReaderReads, builderVars
<1>7. ASSUME NEW b \in Builder, BuilderStep(b) PROVE [Store!Next]_(Store!vars)
  <2>1. content[b] \in Content
    BY DEF Inv, TypeOK
  <2>2. CASE AnswerCreated(b)
    BY <2>1, <2>2, AnswerCreatedImplements
    DEF Store!Next, Store!Tell, VersionState, CreatedCount, ToldOf
  <2>3. CASE ~ AnswerCreated(b)
    <3>1. CreatedCount' = CreatedCount
      BY <1>7, <2>3, BuilderNotTold
    <3>2. CASE PutDataset(b)
      BY <1>2, <2>1, <3>1, <3>2, PutDatasetImplements
      DEF Store!Next, Store!Publish, VersionState, CreatedCount, ToldOf
    <3>3. CASE InsertRow(b)
      BY <1>2, <2>1, <3>1, <3>3, InsertRowImplements
      DEF Store!Next, Store!List, VersionState, CreatedCount, ToldOf
    <3>4. CASE PutLabels(b)
      <4>1. VersionState' = VersionState
        BY <3>4 DEF PutLabels, VersionState, Inv, VersionInv
      <4> QED
        BY <1>2, <3>1, <3>4, <4>1 DEF PutLabels, BuilderWrites
    <3>5. CASE UNCHANGED <<labels, dataset, listed>>
      BY <1>2, <3>1, <3>5 DEF VersionState
    <3> QED
      BY <1>7, <2>3, <3>2, <3>3, <3>4, <3>5 DEF BuilderStep, ListManifests, ReadManifest, ReadBrep, ReadCloud,
         LookForVersion, LookForRow, BuilderCrash, BuilderReads, versionVars
  <2> QED
    BY <2>2, <2>3
<1> QED
  BY <1>3, <1>4, <1>5, <1>6, <1>7 DEF Next

(* The store and the table of build_dataset and POST /v1/datasets          *)
(* implement Versions (architecture.md:42), whichever builders overlap or  *)
(* die.                                                                    *)
THEOREM VersionsImplemented == Spec => ImplementsVersions
<1>1. Init => Store!Init
  BY InitImplements
<1>2. Inv /\ [Next]_vars => [Store!Next]_(Store!vars)
  BY StepImplements
<1> QED
  BY <1>1, <1>2, AlwaysInv, PTL DEF Spec, ImplementsVersions, Store!Spec
================================================================================
