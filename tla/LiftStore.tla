----------------------------- MODULE LiftStore -----------------------------
(***************************************************************************)
(* The lift root on disk: what tools/linux64/lift.py writes there, one IR  *)
(* file and one manifest for each function, and how                        *)
(* scripts/build-lifted-harness.sh picks from it what it links into the    *)
(* harness of one image.                                                   *)
(*                                                                         *)
(* A lift takes several steps: it reads the image, names its directory, has*)
(* Remill write the IR, then writes the manifest.  It can be killed between*)
(* any two (lift-until-complete.sh gives it 300 seconds).  An image is a   *)
(* file with a name and a content; a content stands for its SHA-256 too.   *)
(***************************************************************************)
EXTENDS Naturals, FiniteSets, TLC

CONSTANTS
  Images,            \* file names
  Contents,          \* what an image file can hold
  Functions,         \* functions, at the same addresses in every content
  Followed,          \* those behind whose range another one starts
  Workers,           \* lifts that can be under way at once
  None, Partial,     \* no file; one that is only partly written
  MaxReplaced        \* bound: replacements of an image file

ASSUME StoreAssumption ==
  /\ Contents # {}
  /\ Followed \subseteq Functions
  /\ MaxReplaced \in Nat

Extents == {"range", "extended"}
Codes == [content : Contents, fn : Functions, extent : Extents]
Idle == "idle"

ASSUME FileAssumption == None \notin Codes /\ Partial \notin Codes \cup {None}

VARIABLES
  content,           \* image -> what the file holds
  disk,              \* directory -> its IR and its manifest
  job,               \* worker -> the lift it is busy with
  harness,           \* what the harness built last was linked from
  killed,            \* directories in which a lift was killed
  replaced           \* how many replacements there were

vars == <<content, disk, job, harness, killed, replaced>>

----------------------------------------------------------------------------
(* lift.py *)

image_key(i, c) == [image |-> i, digest |-> c]
lift_dir(i, f) == [key |-> image_key(i, content[i]), fn |-> f]
Dirs == [key : {image_key(i, c) : i \in Images, c \in Contents}, fn : Functions]

\* The bytes a lift of f takes from an image of content c.  --extend-to-next
\* goes from the range's end to the next start behind it, which lift does twice:
\* "extended" are all the bytes it takes, those of a next function included.
Payload(c, f, extend) ==
  [content |-> c, fn |-> f,
   extent |-> IF extend /\ f \in Followed THEN "extended" ELSE "range"]

\* lift_all passes over a function whose manifest records its range's bytes.
AlreadyCurrent(i, f) ==
  disk[lift_dir(i, f)].manifest = Payload(content[i], f, FALSE)

Free(w, i, f) ==
  /\ job[w].at = Idle
  /\ \A v \in Workers :
       job[v].at # Idle => job[v].image # i \/ job[v].code.fn # f

\* lift: the image is loaded.
Load(w, i, f, extend, by) ==
  /\ Free(w, i, f)
  /\ job' = [job EXCEPT ![w] =
       [at |-> "loaded", image |-> i, by |-> by,
        code |-> Payload(content[i], f, extend), dir |-> lift_dir(i, f)]]
  /\ UNCHANGED <<content, disk, harness, killed, replaced>>

\* lift --function
LiftFunction(w, i, f, extend) == Load(w, i, f, extend, "function")

\* lift --all: one of the functions that are not current, never extended.
LiftAll(w, i, f) == ~AlreadyCurrent(i, f) /\ Load(w, i, f, FALSE, "all")

To(w, at) == job' = [job EXCEPT ![w].at = at]
Over(w) == job' = [job EXCEPT ![w] = [at |-> Idle]]

\* The directory is named after what the file holds by now, and Remill starts.
MakeDir(w) ==
  /\ job[w].at = "loaded"
  /\ LET d == lift_dir(job[w].image, job[w].code.fn)
     IN  /\ job' = [job EXCEPT ![w].at = "lifting", ![w].dir = d]
         /\ disk' = [disk EXCEPT ![d].ir = Partial]
  /\ UNCHANGED <<content, harness, killed, replaced>>

\* Remill could not lift the function and wrote nothing: the lift fails.
RemillFails(w) ==
  /\ job[w].at = "loaded"
  /\ Over(w)
  /\ UNCHANGED <<content, disk, harness, killed, replaced>>

RemillDone(w) ==
  /\ job[w].at = "lifting"
  /\ To(w, "lifted")
  /\ disk' = [disk EXCEPT ![job[w].dir].ir = job[w].code]
  /\ UNCHANGED <<content, harness, killed, replaced>>

\* open(manifest_path, "w") empties the manifest, the dump fills it again.
OpenManifest(w) ==
  /\ job[w].at = "lifted"
  /\ To(w, "writing")
  /\ disk' = [disk EXCEPT ![job[w].dir].manifest = Partial]
  /\ UNCHANGED <<content, harness, killed, replaced>>

\* A bug: the manifest describes the range, whatever was lifted.
WriteManifest_bug(w) ==
  /\ job[w].at = "writing"
  /\ Over(w)
  /\ disk' = [disk EXCEPT ![job[w].dir].manifest =
                [job[w].code EXCEPT !.extent = "range"]]
  /\ killed' = killed \ {job[w].dir}
  /\ UNCHANGED <<content, harness, replaced>>

WriteManifest(w) ==
  /\ job[w].at = "writing"
  /\ Over(w)
  /\ disk' = [disk EXCEPT ![job[w].dir].manifest = job[w].code]
  /\ killed' = killed \ {job[w].dir}
  /\ UNCHANGED <<content, harness, replaced>>

\* The lift is killed, by its timeout or by a user.
Kill(w) ==
  /\ job[w].at \notin {Idle, "loaded"}
  /\ Over(w)
  /\ killed' = killed \cup {job[w].dir}
  /\ UNCHANGED <<content, disk, harness, replaced>>

----------------------------------------------------------------------------
(* build-lifted-harness.sh, and the image file itself. *)

Complete(d) == disk[d].manifest \in Codes

\* A bug: manifests taken whatever image they were lifted from.
Matching_bug(i) == {d \in Dirs : Complete(d)}

\* The manifests of this exact image, in whatever directory.
Matching(i) ==
  {d \in Dirs : Complete(d) /\ disk[d].manifest.content = content[i]}

\* What makes the build stop: a manifest, of any image, that is no JSON; none
\* of this image; two for one address; an IR file with no function in it.
Unbuildable(i) ==
  \/ \E d \in Dirs : disk[d].manifest = Partial
  \/ Matching(i) = {}
  \/ \E d, e \in Matching(i) : d # e /\ d.fn = e.fn
  \/ \E d \in Matching(i) : disk[d].ir \notin Codes

Quiet == \A w \in Workers : job[w].at = Idle

\* The drivers build when their lifts are over.  A build that stops leaves the
\* harness of an earlier one where it is.
Build(i) ==
  /\ Quiet
  /\ ~Unbuildable(i)
  /\ harness' = [content |-> content[i], table |-> {disk[d].ir : d \in Matching(i)}]
  /\ UNCHANGED <<content, disk, job, killed, replaced>>

\* Someone puts another file in the image's place.
Replace(i, c) ==
  /\ c # content[i]
  /\ replaced < MaxReplaced
  /\ replaced' = replaced + 1
  /\ content' = [content EXCEPT ![i] = c]
  /\ UNCHANGED <<disk, job, harness, killed>>

----------------------------------------------------------------------------

Init ==
  /\ content \in [Images -> Contents]
  /\ disk = [d \in Dirs |-> [ir |-> None, manifest |-> None]]
  /\ job = [w \in Workers |-> [at |-> Idle]]
  /\ harness = [content |-> None, table |-> {}]
  /\ killed = {}
  /\ replaced = 0

Lifting ==
  \/ \E w \in Workers, i \in Images, f \in Functions :
       LiftAll(w, i, f) \/ \E x \in BOOLEAN : LiftFunction(w, i, f, x)
  \/ \E w \in Workers :
       \/ MakeDir(w) \/ RemillFails(w) \/ RemillDone(w)
       \/ OpenManifest(w) \/ WriteManifest(w)
Replacing == \E i \in Images, c \in Contents : Replace(i, c)
Building == \E i \in Images : Build(i)
Killing == \E w \in Workers : Kill(w)

\* Lifts are never killed, and images replaced only while nothing is lifted.
Calm == Lifting \/ Building \/ (Quiet /\ Replacing)
\* Lifts may be killed.
KillSpec == Init /\ [][Calm \/ Killing]_vars
\* Images may be replaced while they are lifted.
Next == Lifting \/ Building \/ Replacing
Spec == Init /\ [][Next]_vars

----------------------------------------------------------------------------
(* Properties. *)

Jobs ==
  [at : {Idle}] \cup
  [at : {"loaded", "lifting", "lifted", "writing"}, image : Images,
   by : {"function", "all"}, code : Codes, dir : Dirs]

TypeOK ==
  /\ content \in [Images -> Contents]
  /\ disk \in [Dirs -> [ir : Codes \cup {None, Partial},
                        manifest : Codes \cup {None, Partial}]]
  /\ job \in [Workers -> Jobs]
  /\ harness \in [content : Contents \cup {None}, table : SUBSET Codes]
  /\ killed \subseteq Dirs
  /\ replaced \in 0 .. MaxReplaced

\* A harness is linked from functions of one content, the one its image had
\* (build-lifted-harness.sh:10-12).
NoMixedBuild == \A e \in harness.table : e.content = harness.content

\* The manifest beside an IR file says what the IR was lifted from, unless a
\* lift is at work there (lift.py:14-16).
Busy(d) == \E w \in Workers : job[w].at # Idle /\ job[w].dir = d
TrustedManifest ==
  \A d \in Dirs : Complete(d) /\ ~Busy(d) => disk[d].ir = disk[d].manifest

\* After kills too, a directory in which none happened can be trusted.
TrustedWhereNotKilled ==
  \A d \in Dirs \ killed :
    ~Busy(d) => disk[d].manifest # Partial
                /\ (Complete(d) => disk[d].ir = disk[d].manifest)

\* Images, contents and workers are interchangeable.
Symmetry ==
  Permutations(Images) \cup Permutations(Contents) \cup Permutations(Workers)
=============================================================================
