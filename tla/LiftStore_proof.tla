--------------------------- MODULE LiftStore_proof ---------------------------
(***************************************************************************)
(* Proofs about LiftStore, for any images, functions and number of lifts   *)
(* under way, while images may be replaced and lifts killed at any time.   *)
(*                                                                         *)
(* A directory can be trusted as long as no lift has started to write in   *)
(* it and none was killed there; lifts under way are kept apart by the     *)
(* functions they work on.                                                 *)
(***************************************************************************)
EXTENDS LiftStore, TLAPS

Busies == {"loaded", "lifting", "lifted", "writing"}
BusyJobs == [at : Busies, image : Images, by : {"function", "all"},
             code : Codes, dir : Dirs]
Entries == [ir : Codes \cup {None, Partial}, manifest : Codes \cup {None, Partial}]

Typed ==
  /\ content \in [Images -> Contents]
  /\ disk \in [Dirs -> Entries]
  /\ job \in [Workers -> [at : {Idle}] \cup BusyJobs]

\* A lift works in the directory of its own image and function.
AtHome ==
  \A w \in Workers : job[w].at # Idle =>
    /\ job[w] \in BusyJobs
    /\ job[w].dir.key.image = job[w].image
    /\ job[w].dir.fn = job[w].code.fn

\* No two lifts are of one function of one image.
Distinct ==
  \A v, w \in Workers :
    v # w /\ job[v].at # Idle /\ job[w].at # Idle
      => job[v].image # job[w].image \/ job[v].code.fn # job[w].code.fn

\* A lift that has written the IR finds it as it left it.
IRWritten ==
  \A w \in Workers : job[w].at \in {"lifted", "writing"} =>
    disk[job[w].dir].ir = job[w].code

Writing(w, d) == job[w].at \in {"lifting", "lifted", "writing"} /\ job[w].dir = d
Trusted(e) == e.manifest # Partial /\ (e.manifest \in Codes => e.ir = e.manifest)
Settled ==
  \A d \in Dirs \ killed : (\A w \in Workers : ~Writing(w, d)) => Trusted(disk[d])

IInv == Typed /\ AtHome /\ Distinct /\ IRWritten /\ Settled

\* Every step of the two specifications.
AnyStep == Next \/ Killing

----------------------------------------------------------------------------

LEMMA IdleNotBusy == Idle \notin Busies
BY DEF Idle, Busies

LEMMA DirType ==
  ASSUME NEW i \in Images, NEW c \in Contents, NEW f \in Functions
  PROVE  [key |-> image_key(i, c), fn |-> f] \in Dirs
BY DEF Dirs

LEMMA InitInv == Init => IInv
<1> SUFFICES ASSUME Init PROVE IInv
  OBVIOUS
<1>1. Typed
  BY DEF Init, Typed, Entries
<1>2. \A w \in Workers : job[w].at = Idle
  BY DEF Init
<1>3. AtHome /\ Distinct /\ IRWritten
  BY <1>2 DEF AtHome, Distinct, IRWritten, Idle
<1>4. Settled
  BY FileAssumption DEF Init, Settled, Trusted
<1> QED  BY <1>1, <1>3, <1>4 DEF IInv

\* Two lifts under way never share a directory.
LEMMA Apart ==
  ASSUME AtHome, Distinct, NEW v \in Workers, NEW w \in Workers, v # w,
         job[v].at # Idle, job[w].at # Idle
  PROVE  job[v].dir # job[w].dir
BY DEF AtHome, Distinct

\* A worker goes on to another step of its lift.
LEMMA StepOn ==
  ASSUME IInv, NEW w \in Workers, job[w].at # Idle, NEW at \in Busies, To(w, at)
  PROVE  /\ job' \in [Workers -> [at : {Idle}] \cup BusyJobs]
         /\ job[w] \in BusyJobs /\ job'[w] \in BusyJobs
         /\ job'[w].at = at /\ job'[w].dir = job[w].dir
         /\ job'[w].code = job[w].code /\ job'[w].image = job[w].image
         /\ \A v \in Workers : v # w => job'[v] = job[v]
         /\ AtHome' /\ Distinct'
<1> DEFINE r == [job[w] EXCEPT !.at = at]
<1>1. job[w] \in BusyJobs
  BY DEF IInv, AtHome
<1>2. /\ r \in BusyJobs /\ r.at = at /\ r.dir = job[w].dir
      /\ r.code = job[w].code /\ r.image = job[w].image
  BY <1>1 DEF BusyJobs
<1>3. job' = [job EXCEPT ![w] = r]
  BY DEF To
<1> HIDE DEF r
<1>4. job \in [Workers -> [at : {Idle}] \cup BusyJobs]
  BY DEF IInv, Typed
<1>5. /\ job' \in [Workers -> [at : {Idle}] \cup BusyJobs]
      /\ job'[w] = r /\ \A v \in Workers : v # w => job'[v] = job[v]
  BY <1>1, <1>2, <1>3, <1>4
<1>6. AtHome' /\ Distinct'
  BY <1>2, <1>5 DEF IInv, AtHome, Distinct
<1> QED  BY <1>1, <1>2, <1>5, <1>6

\* A lift is over.
LEMMA End ==
  ASSUME IInv, NEW w \in Workers, Over(w)
  PROVE  /\ job' \in [Workers -> [at : {Idle}] \cup BusyJobs]
         /\ job'[w].at = Idle
         /\ \A v \in Workers : v # w => job'[v] = job[v]
         /\ AtHome' /\ Distinct'
<1>1. job \in [Workers -> [at : {Idle}] \cup BusyJobs]
  BY DEF IInv, Typed
<1>2. [at |-> Idle] \in [at : {Idle}]
  OBVIOUS
<1>3. /\ job' \in [Workers -> [at : {Idle}] \cup BusyJobs]
      /\ job'[w] = [at |-> Idle] /\ \A v \in Workers : v # w => job'[v] = job[v]
  BY <1>1, <1>2 DEF Over
<1>4. AtHome' /\ Distinct'
  BY <1>3 DEF IInv, AtHome, Distinct
<1> QED  BY <1>3, <1>4

\* One file of one directory is written.
LEMMA WriteIR ==
  ASSUME Typed, NEW d \in Dirs, NEW x \in Codes \cup {None, Partial},
         disk' = [disk EXCEPT ![d].ir = x]
  PROVE  /\ disk' \in [Dirs -> Entries]
         /\ disk'[d].ir = x /\ disk'[d].manifest = disk[d].manifest
         /\ \A e \in Dirs : e # d => disk'[e] = disk[e]
<1> DEFINE r == [disk[d] EXCEPT !.ir = x]
<1>1. disk \in [Dirs -> Entries] /\ disk[d] \in Entries
  BY DEF Typed
<1>2. r \in Entries /\ r.ir = x /\ r.manifest = disk[d].manifest
  BY <1>1 DEF Entries
<1>3. disk' = [disk EXCEPT ![d] = r]
  OBVIOUS
<1> HIDE DEF r
<1> QED  BY <1>1, <1>2, <1>3

LEMMA WriteDescription ==
  ASSUME Typed, NEW d \in Dirs, NEW x \in Codes \cup {None, Partial},
         disk' = [disk EXCEPT ![d].manifest = x]
  PROVE  /\ disk' \in [Dirs -> Entries]
         /\ disk'[d].manifest = x /\ disk'[d].ir = disk[d].ir
         /\ \A e \in Dirs : e # d => disk'[e] = disk[e]
<1> DEFINE r == [disk[d] EXCEPT !.manifest = x]
<1>1. disk \in [Dirs -> Entries] /\ disk[d] \in Entries
  BY DEF Typed
<1>2. r \in Entries /\ r.manifest = x /\ r.ir = disk[d].ir
  BY <1>1 DEF Entries
<1>3. disk' = [disk EXCEPT ![d] = r]
  OBVIOUS
<1> HIDE DEF r
<1> QED  BY <1>1, <1>2, <1>3

----------------------------------------------------------------------------
(* Each action keeps the invariant. *)

LEMMA LoadKeeps ==
  ASSUME IInv, NEW w \in Workers, NEW i \in Images, NEW f \in Functions,
         NEW x \in BOOLEAN, NEW by \in {"function", "all"}, Load(w, i, f, x, by)
  PROVE  IInv'
<1> DEFINE r == [at |-> "loaded", image |-> i, by |-> by,
                 code |-> Payload(content[i], f, x), dir |-> lift_dir(i, f)]
<1>1. content[i] \in Contents
  BY DEF IInv, Typed
<1>2. Payload(content[i], f, x) \in Codes /\ Payload(content[i], f, x).fn = f
  BY <1>1 DEF Payload, Codes, Extents
<1>3. /\ lift_dir(i, f) \in Dirs
      /\ lift_dir(i, f).key.image = i /\ lift_dir(i, f).fn = f
  BY <1>1, DirType DEF lift_dir, image_key
<1>4. /\ r \in BusyJobs /\ r.at = "loaded" /\ r.image = i /\ r.code.fn = f
      /\ r.dir.key.image = i /\ r.dir.fn = f
  BY <1>2, <1>3 DEF BusyJobs, Busies
<1>5. job' = [job EXCEPT ![w] = r]
  BY DEF Load
<1> HIDE DEF r
<1>6. job \in [Workers -> [at : {Idle}] \cup BusyJobs]
  BY DEF IInv, Typed
<1>7. /\ job' \in [Workers -> [at : {Idle}] \cup BusyJobs]
      /\ job'[w] = r /\ \A v \in Workers : v # w => job'[v] = job[v]
  BY <1>4, <1>5, <1>6
<1>8. UNCHANGED <<content, disk, killed>>
  BY DEF Load
<1>9. Typed'
  BY <1>7, <1>8 DEF IInv, Typed
<1>10. AtHome'
  BY <1>4, <1>7 DEF IInv, AtHome
<1>11. \A v \in Workers : job[v].at # Idle => job[v].image # i \/ job[v].code.fn # f
  BY DEF Load, Free
<1>12. Distinct'
  BY <1>4, <1>7, <1>11 DEF IInv, Distinct
<1>13. IRWritten'
  BY <1>4, <1>7, <1>8 DEF IInv, IRWritten
<1>14. job[w].at = Idle
  BY DEF Load, Free
<1>15. Settled'
  BY <1>4, <1>7, <1>8, <1>14 DEF IInv, Settled, Writing, Idle
<1> QED  BY <1>9, <1>10, <1>12, <1>13, <1>15 DEF IInv

LEMMA MakeDirKeeps ==
  ASSUME IInv, NEW w \in Workers, MakeDir(w)
  PROVE  IInv'
<1> DEFINE d == lift_dir(job[w].image, job[w].code.fn)
           r == [job[w] EXCEPT !.at = "lifting", !.dir = d]
<1>1. job[w].at = "loaded" /\ job[w] \in BusyJobs
  BY DEF MakeDir, IInv, AtHome, Idle
<1>2. job[w].image \in Images /\ job[w].code.fn \in Functions
      /\ content[job[w].image] \in Contents
  BY <1>1 DEF BusyJobs, Codes, IInv, Typed
<1>3. d \in Dirs /\ d.key.image = job[w].image /\ d.fn = job[w].code.fn
  BY <1>2, DirType DEF lift_dir, image_key
<1>4. disk' = [disk EXCEPT ![d].ir = Partial]
  BY DEF MakeDir
<1>5. job' = [job EXCEPT ![w] = r]
  BY DEF MakeDir
<1>6. UNCHANGED <<content, killed>>
  BY DEF MakeDir
<1> HIDE DEF d
<1>7. /\ r \in BusyJobs /\ r.at = "lifting" /\ r.dir = d
      /\ r.image = job[w].image /\ r.code = job[w].code
  BY <1>1, <1>3 DEF BusyJobs, Busies
<1> HIDE DEF r
<1>8. job \in [Workers -> [at : {Idle}] \cup BusyJobs] /\ Typed
  BY DEF IInv, Typed
<1>9. /\ job' \in [Workers -> [at : {Idle}] \cup BusyJobs]
      /\ job'[w] = r /\ \A v \in Workers : v # w => job'[v] = job[v]
  BY <1>5, <1>7, <1>8
<1>10. disk' \in [Dirs -> Entries] /\ \A e \in Dirs : e # d => disk'[e] = disk[e]
  BY <1>3, <1>4, <1>8, WriteIR
<1>11. Typed'
  BY <1>6, <1>9, <1>10 DEF Typed, IInv
<1>12. AtHome'
  BY <1>3, <1>7, <1>9 DEF IInv, AtHome
<1>13. Distinct'
  BY <1>1, <1>7, <1>9 DEF IInv, Distinct, Idle
<1>14. ASSUME NEW v \in Workers, v # w, job[v].at # Idle
       PROVE  job[v].dir # d /\ job[v].dir \in Dirs
  BY <1>1, <1>3, <1>14 DEF IInv, AtHome, Distinct, BusyJobs, Idle
<1>15. IRWritten'
  BY <1>7, <1>9, <1>10, <1>14 DEF IInv, IRWritten, Idle
<1>16. Settled'
  BY <1>1, <1>6, <1>7, <1>9, <1>10 DEF IInv, Settled, Writing
<1> QED  BY <1>11, <1>12, <1>13, <1>15, <1>16 DEF IInv

LEMMA RemillFailsKeeps ==
  ASSUME IInv, NEW w \in Workers, RemillFails(w)
  PROVE  IInv'
<1>1. job[w].at = "loaded" /\ job[w].at # Idle /\ Over(w)
  BY DEF RemillFails, Idle
<1>2. UNCHANGED <<content, disk, killed>>
  BY DEF RemillFails
<1>3. AtHome' /\ Distinct'
  BY <1>1, End
<1>4. /\ job' \in [Workers -> [at : {Idle}] \cup BusyJobs]
      /\ job'[w].at = Idle /\ \A v \in Workers : v # w => job'[v] = job[v]
  BY <1>1, End
<1>5. Typed'
  BY <1>2, <1>4 DEF IInv, Typed
<1>6. IRWritten'
  BY <1>2, <1>4 DEF IInv, IRWritten, Idle
<1>7. Settled'
  BY <1>1, <1>2, <1>4 DEF IInv, Settled, Writing
<1> QED  BY <1>3, <1>5, <1>6, <1>7 DEF IInv

LEMMA RemillDoneKeeps ==
  ASSUME IInv, NEW w \in Workers, RemillDone(w)
  PROVE  IInv'
<1> DEFINE d == job[w].dir
<1>1. job[w].at = "lifting" /\ job[w].at # Idle /\ To(w, "lifted") /\ "lifted" \in Busies
  BY DEF RemillDone, Idle, Busies
<1>2. disk' = [disk EXCEPT ![d].ir = job[w].code] /\ UNCHANGED <<content, killed>>
  BY DEF RemillDone
<1>3. AtHome' /\ Distinct'
  BY <1>1, StepOn
<1>4. /\ job' \in [Workers -> [at : {Idle}] \cup BusyJobs] /\ job[w] \in BusyJobs
      /\ job'[w].at = "lifted" /\ job'[w].dir = d /\ job'[w].code = job[w].code
      /\ \A v \in Workers : v # w => job'[v] = job[v]
  BY <1>1, StepOn
<1>5. d \in Dirs /\ job[w].code \in Codes
  BY <1>4 DEF BusyJobs
<1>6. /\ disk' \in [Dirs -> Entries] /\ disk'[d].ir = job[w].code
      /\ \A e \in Dirs : e # d => disk'[e] = disk[e]
  BY <1>2, <1>5, WriteIR DEF IInv
<1>7. Typed'
  BY <1>2, <1>4, <1>6 DEF IInv, Typed
<1>8. ASSUME NEW v \in Workers, v # w, job[v].at # Idle
      PROVE  job[v].dir # d /\ job[v].dir \in Dirs
  BY <1>1, <1>8, Apart DEF IInv, AtHome, BusyJobs
<1>9. IRWritten'
  BY <1>4, <1>6, <1>8 DEF IInv, IRWritten, Idle
<1>10. Settled'
  BY <1>2, <1>4, <1>6 DEF IInv, Settled, Writing
<1> QED  BY <1>3, <1>7, <1>9, <1>10 DEF IInv

LEMMA OpenManifestKeeps ==
  ASSUME IInv, NEW w \in Workers, OpenManifest(w)
  PROVE  IInv'
<1> DEFINE d == job[w].dir
<1>1. job[w].at = "lifted" /\ job[w].at # Idle /\ To(w, "writing") /\ "writing" \in Busies
  BY DEF OpenManifest, Idle, Busies
<1>2. disk' = [disk EXCEPT ![d].manifest = Partial] /\ UNCHANGED <<content, killed>>
  BY DEF OpenManifest
<1>3. AtHome' /\ Distinct'
  BY <1>1, StepOn
<1>4. /\ job' \in [Workers -> [at : {Idle}] \cup BusyJobs] /\ job[w] \in BusyJobs
      /\ job'[w].at = "writing" /\ job'[w].dir = d /\ job'[w].code = job[w].code
      /\ \A v \in Workers : v # w => job'[v] = job[v]
  BY <1>1, StepOn
<1>5. d \in Dirs
  BY <1>4 DEF BusyJobs
<1>6. /\ disk' \in [Dirs -> Entries] /\ disk'[d].ir = disk[d].ir
      /\ \A e \in Dirs : e # d => disk'[e] = disk[e]
  BY <1>2, <1>5, WriteDescription DEF IInv
<1>7. Typed'
  BY <1>2, <1>4, <1>6 DEF IInv, Typed
<1>8. ASSUME NEW v \in Workers, v # w, job[v].at # Idle
      PROVE  job[v].dir # d /\ job[v].dir \in Dirs
  BY <1>1, <1>8, Apart DEF IInv, AtHome, BusyJobs
<1>9. IRWritten'
  BY <1>1, <1>4, <1>6, <1>8 DEF IInv, IRWritten, Idle
<1>10. Settled'
  BY <1>2, <1>4, <1>6 DEF IInv, Settled, Writing
<1> QED  BY <1>3, <1>7, <1>9, <1>10 DEF IInv

LEMMA WriteManifestKeeps ==
  ASSUME IInv, NEW w \in Workers, WriteManifest(w)
  PROVE  IInv'
<1> DEFINE d == job[w].dir
<1>1. job[w].at = "writing" /\ job[w].at # Idle /\ Over(w)
  BY DEF WriteManifest, Idle
<1>2. /\ disk' = [disk EXCEPT ![d].manifest = job[w].code]
      /\ killed' = killed \ {d} /\ UNCHANGED content
  BY DEF WriteManifest
<1>3. AtHome' /\ Distinct'
  BY <1>1, End
<1>4. /\ job' \in [Workers -> [at : {Idle}] \cup BusyJobs]
      /\ job'[w].at = Idle /\ \A v \in Workers : v # w => job'[v] = job[v]
  BY <1>1, End
<1>5. d \in Dirs /\ job[w].code \in Codes
  BY <1>1 DEF IInv, AtHome, BusyJobs
<1>6. /\ disk' \in [Dirs -> Entries]
      /\ disk'[d].manifest = job[w].code /\ disk'[d].ir = disk[d].ir
      /\ \A e \in Dirs : e # d => disk'[e] = disk[e]
  BY <1>2, <1>5, WriteDescription DEF IInv
<1>7. Typed'
  BY <1>2, <1>4, <1>6 DEF IInv, Typed
<1>8. ASSUME NEW v \in Workers, v # w, job[v].at # Idle
      PROVE  job[v].dir # d /\ job[v].dir \in Dirs
  BY <1>1, <1>8, Apart DEF IInv, AtHome, BusyJobs
<1>9. IRWritten'
  BY <1>4, <1>6, <1>8 DEF IInv, IRWritten, Idle
<1>10. Trusted(disk'[d])
  BY <1>1, <1>5, <1>6, FileAssumption DEF IInv, IRWritten, Trusted
<1>11. Settled'
  BY <1>2, <1>4, <1>6, <1>10 DEF IInv, Settled, Writing
<1> QED  BY <1>3, <1>7, <1>9, <1>11 DEF IInv

LEMMA KillKeeps ==
  ASSUME IInv, NEW w \in Workers, Kill(w)
  PROVE  IInv'
<1>1. job[w].at # Idle /\ Over(w)
  BY DEF Kill
<1>2. UNCHANGED <<content, disk>> /\ killed' = killed \cup {job[w].dir}
  BY DEF Kill
<1>3. AtHome' /\ Distinct'
  BY <1>1, End
<1>4. /\ job' \in [Workers -> [at : {Idle}] \cup BusyJobs]
      /\ job'[w].at = Idle /\ \A v \in Workers : v # w => job'[v] = job[v]
  BY <1>1, End
<1>5. Typed'
  BY <1>2, <1>4 DEF IInv, Typed
<1>6. IRWritten'
  BY <1>2, <1>4 DEF IInv, IRWritten, Idle
<1>7. Settled'
  BY <1>1, <1>2, <1>4 DEF IInv, Settled, Writing
<1> QED  BY <1>3, <1>5, <1>6, <1>7 DEF IInv

\* Builds and replacements touch neither the disk nor the lifts.
LEMMA OutsideKeeps ==
  ASSUME IInv, Building \/ Replacing
  PROVE  IInv'
<1>1. UNCHANGED <<disk, job, killed>>
  BY DEF Building, Build, Replacing, Replace
<1>2. content' \in [Images -> Contents]
  BY DEF Building, Build, Replacing, Replace, IInv, Typed
<1>3. Typed'
  BY <1>1, <1>2 DEF IInv, Typed
<1>4. AtHome' /\ Distinct' /\ IRWritten'
  BY <1>1 DEF IInv, AtHome, Distinct, IRWritten
<1>5. Settled'
  BY <1>1 DEF IInv, Settled, Writing
<1> QED  BY <1>3, <1>4, <1>5 DEF IInv

LEMMA NextInv == IInv /\ [AnyStep]_vars => IInv'
<1> SUFFICES ASSUME IInv, [AnyStep]_vars PROVE IInv'
  OBVIOUS
<1>1. CASE UNCHANGED vars
  BY <1>1 DEF vars, IInv, Typed, AtHome, Distinct, IRWritten, Settled, Writing
<1>2. ASSUME NEW w \in Workers, NEW i \in Images, NEW f \in Functions,
             LiftAll(w, i, f) \/ \E x \in BOOLEAN : LiftFunction(w, i, f, x)
      PROVE  IInv'
  BY <1>2, LoadKeeps DEF LiftFunction, LiftAll
<1>3. ASSUME NEW w \in Workers,
             \/ MakeDir(w) \/ RemillFails(w) \/ RemillDone(w)
             \/ OpenManifest(w) \/ WriteManifest(w) \/ Kill(w)
      PROVE  IInv'
  BY <1>3, MakeDirKeeps, RemillFailsKeeps, RemillDoneKeeps, OpenManifestKeeps,
     WriteManifestKeeps, KillKeeps
<1>4. CASE Lifting
  BY <1>2, <1>3, <1>4 DEF Lifting
<1>5. CASE Killing
  BY <1>3, <1>5 DEF Killing
<1> QED  BY <1>1, <1>4, <1>5, OutsideKeeps DEF AnyStep, Next

\* With kills anywhere, a directory in which none happened can be trusted
\* (lift.py:14-16).
THEOREM TrustedWhereNotKilledAlways == KillSpec => []TrustedWhereNotKilled
<1>1. Calm \/ Killing => AnyStep
  BY DEF Calm, AnyStep, Next
<1>2. IInv => TrustedWhereNotKilled
  BY DEF IInv, Settled, Trusted, Writing, TrustedWhereNotKilled, Busy, Complete, Idle
<1> QED  BY <1>1, <1>2, InitInv, NextInv, PTL DEF KillSpec

----------------------------------------------------------------------------
(* Without kills. *)

RestTyped ==
  /\ harness \in [content : Contents \cup {None}, table : SUBSET Codes]
  /\ replaced \in 0 .. MaxReplaced

NotKilled == killed = {}
Whole == IInv /\ RestTyped /\ NotKilled /\ NoMixedBuild

LEMMA InitWhole == Init => Whole
<1> SUFFICES ASSUME Init PROVE Whole
  OBVIOUS
<1>1. RestTyped
  BY StoreAssumption DEF Init, RestTyped
<1>2. NotKilled /\ NoMixedBuild
  BY DEF Init, NotKilled, NoMixedBuild
<1> QED  BY <1>1, <1>2, InitInv DEF Whole

\* A build takes what the manifests name, and nothing is being written then.
LEMMA BuildKeeps ==
  ASSUME Whole, NEW i \in Images, Build(i)
  PROVE  RestTyped' /\ NoMixedBuild'
<1> DEFINE h == [content |-> content[i], table |-> {disk[d].ir : d \in Matching(i)}]
<1>1. ~Unbuildable(i) /\ harness' = h /\ replaced' = replaced
  BY DEF Build
<1>2. \A d \in Dirs : Trusted(disk[d])
  BY DEF Build, Quiet, Whole, IInv, Settled, NotKilled, Writing, Idle
<1>3. \A d \in Matching(i) : disk[d].ir \in Codes /\ disk[d].ir.content = content[i]
  BY <1>2 DEF Matching, Complete, Trusted
<1>4. content[i] \in Contents
  BY DEF Whole, IInv, Typed
<1>5. /\ h \in [content : Contents \cup {None}, table : SUBSET Codes]
      /\ \A e \in h.table : e.content = h.content
  BY <1>3, <1>4
<1> HIDE DEF h
<1> QED  BY <1>1, <1>5 DEF Whole, RestTyped, NoMixedBuild

LEMMA NextWhole == Whole /\ [Next]_vars => Whole'
<1> SUFFICES ASSUME Whole, [Next]_vars PROVE Whole'
  OBVIOUS
<1>1. IInv'
  BY NextInv DEF Whole, AnyStep
<1>2. CASE UNCHANGED vars
  BY <1>1, <1>2 DEF vars, Whole, RestTyped, NotKilled, NoMixedBuild
<1>3. CASE Lifting
  <2>1. UNCHANGED <<harness, replaced>> /\ killed' \subseteq killed
    BY <1>3 DEF Lifting, LiftFunction, LiftAll, Load, MakeDir, RemillFails,
       RemillDone, OpenManifest, WriteManifest
  <2> QED  BY <1>1, <2>1 DEF Whole, RestTyped, NotKilled, NoMixedBuild
<1>4. CASE Building
  <2>1. UNCHANGED killed
    BY <1>4 DEF Building, Build
  <2> QED  BY <1>1, <1>4, <2>1, BuildKeeps DEF Building, Whole, NotKilled
<1>5. CASE Replacing
  <2>1. UNCHANGED <<harness, killed>> /\ replaced < MaxReplaced /\ replaced' = replaced + 1
    BY <1>5 DEF Replacing, Replace
  <2>2. replaced' \in 0 .. MaxReplaced
    BY <2>1, StoreAssumption DEF Whole, RestTyped
  <2> QED  BY <1>1, <2>1, <2>2 DEF Whole, RestTyped, NotKilled, NoMixedBuild
<1> QED  BY <1>2, <1>3, <1>4, <1>5 DEF Next

LEMMA WholeAlways == Spec => []Whole
BY InitWhole, NextWhole, PTL DEF Spec

\* While no lift is killed, each manifest says what the IR beside it was lifted
\* from, whatever is replaced meanwhile (lift.py:14-16).
THEOREM TrustedManifestAlways == Spec => []TrustedManifest
<1>1. Whole => TrustedManifest
  BY DEF Whole, IInv, NotKilled, Settled, Trusted, Writing, TrustedManifest, Busy,
     Complete, Idle
<1> QED  BY <1>1, WholeAlways, PTL

\* No harness mixes functions of two contents (build-lifted-harness.sh:10-12).
THEOREM NoMixedBuildAlways == Spec => []NoMixedBuild
<1>1. Whole => NoMixedBuild
  BY DEF Whole
<1> QED  BY <1>1, WholeAlways, PTL

\* The state stays in its types: what lift.py writes, and the lifts under way.
THEOREM TypeOKAlways == Spec => []TypeOK
<1>1. Whole => TypeOK
  BY DEF Whole, IInv, Typed, RestTyped, NotKilled, TypeOK, Entries, BusyJobs, Jobs,
     Busies
<1> QED  BY <1>1, WholeAlways, PTL
=============================================================================
