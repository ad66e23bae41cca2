-------------------------- MODULE ProvisionProofs --------------------------
(***************************************************************************)
(* Proofs about Provision, for any number of places, whether or not calls  *)
(* may run at the same time.  The invariant speaks of a file at a time,    *)
(* and only of files that are not mixed: on these at most one place is at  *)
(* work, so what its child or thread has seen and written is still true.   *)
(* A step works on one file (Works), except when a call starts, ends or    *)
(* passes a join.                                                          *)
(*                                                                         *)
(* The last part is about the engine that is uploaded, when calls run one  *)
(* after the other.  It needs no word about mixed files: what compiles is  *)
(* not a child and ends with its program.                                  *)
(***************************************************************************)
EXTENDS Provision, TLAPS, WellFoundedInduction

JobPc == AtWork \cup {"idle", "check", "ok", "err"}
ProcPc == {"off", "download", "build", "clean", "load", "engine", "compile", "session", "up",
           "failed"}
Job == [pc : JobPc, fd : Path \cup {"none"}, todo : SUBSET Block]

\* The file that the job for n writes.
Target(n) == IF n \in Download THEN Tmp(n) ELSE n

\* The part of the type invariant that the actions on files disturb, and why
\* it is kept: what a job has open is there, and is one of its own two files.
FilesOK ==
    /\ present \subseteq Path
    /\ blocks \in [Path -> SUBSET Block]
    /\ \A f \in Path \ present : blocks[f] = {}
    /\ job \in [Proc -> [Final -> Job]]
    /\ \A q \in Proc, n \in Final :
         job[q][n].fd \in (present \cap {n, Target(n)}) \cup {"none"}

\* The rest of it.
RestOK ==
    /\ remote \in {NoObject} \cup SUBSET Block
    /\ proc \in [Proc -> ProcPc]
    /\ faults \in 0..MaxFaults
    /\ hurt \subseteq Final /\ lost \in BOOLEAN /\ mixed \subseteq Final

\* Where a call is while it has these jobs.
Own(q) ==
    /\ proc[q] = "download" => \A n \in Built : job[q][n].pc = "idle"
    /\ job[q]["engine"].pc = "fetch" => proc[q] \in {"engine", "off"}
    /\ job[q]["engine"].pc \in {"compile", "writing", "closed"} => proc[q] = "compile"

\* What the job of q for n relies on: what is written and what is left make up
\* the whole, and what was missing has not come by another way.
Good(q, n) ==
    /\ n # "engine" /\ job[q][n].pc = "writing" =>
         job[q][n].fd = Target(n) /\ blocks[Target(n)] \cup job[q][n].todo = Block
    /\ n # "engine" /\ job[q][n].pc \in {"closed", "sized"} => blocks[Target(n)] = Block
    /\ n \in {"vocab", "engine"} /\ job[q][n].pc \in {"fetch", "compile"} => n \notin present

\* What there is under the name n.
Found(n) ==
    /\ n \in Download /\ n \in present => blocks[n] = Block
    /\ n \in Built /\ n \in present => n \in hurt \/ Writing(n) \/ blocks[n] = Block

\* What ensure_model promises to be there, and since when a call relies on it.
Needed == {"tokenizer", "config", "model", "vocab"}
There(n) == n \in present /\ (n = "vocab" => blocks[n] # {})
Serving == {"load", "engine", "compile", "session", "up"}
Late(n) == {"clean"} \cup Serving \cup (IF n \in Download THEN {"build"} ELSE {})
Seen(n) ==
    n \in Needed /\ (\E q \in Proc : job[q][n].pc = "ok" \/ proc[q] \in Late(n)) => There(n)

Sound(n) == (\A q \in Proc : Good(q, n)) /\ Found(n) /\ Seen(n)

\* The inductive invariant.
Inv ==
    /\ FilesOK /\ RestOK /\ Clashing(job) \subseteq mixed
    /\ \A q \in Proc : Own(q)
    /\ \A n \in Final \ mixed : Sound(n)

-----------------------------------------------------------------------------
(* Names and jobs. *)

\* Temporary files have names of their own.
LEMMA Names ==
    /\ Download \subseteq Final /\ Built \subseteq Final /\ "engine" \in Final
    /\ Final \subseteq Path /\ "none" \notin Path
    /\ Download \cap Built = {} /\ "engine" \notin Download /\ "engine" \notin Built
    /\ Final = Download \cup Built \cup {"engine"}
    /\ \A n \in Download : Tmp(n) \in Path /\ Tmp(n) \notin Final
    /\ \A n, k \in Download : Tmp(n) = Tmp(k) => n = k
<1>1. \A n \in Download : Tmp(n) \in {"tokenizer.tmp", "config.tmp", "raw.tmp"}
      BY DEF Download, Tmp
<1>2. \A n \in Download : Tmp(n) \in Path
      BY DEF Path
<1>3. \A f \in Path : f \in Final \/ f \in {"tokenizer.tmp", "config.tmp", "raw.tmp"}
      BY <1>1 DEF Path
<1>4. "none" \notin Path
      BY <1>3 DEF Final, Download, Built
<1>5. \A n \in Download : Tmp(n) \notin Final
      BY <1>1 DEF Final, Download, Built
<1>6. \A n, k \in Download : Tmp(n) = Tmp(k) => n = k
      BY DEF Download, Tmp
<1> QED BY <1>2, <1>4, <1>5, <1>6 DEF Final, Download, Built, Path

\* Every job has a file of its own.
LEMMA Targets ==
    /\ \A n \in Final : Target(n) \in Path /\ Target(n) \notin Download
    /\ \A n, k \in Final : Target(n) = Target(k) => n = k
    /\ \A n \in Final \ Download : Target(n) = n
    /\ \A n \in Download : Target(n) = Tmp(n)
BY Names DEF Target

LEMMA EndedIsAJob ==
    ASSUME NEW c \in JobPc
    PROVE  /\ Ended(c) \in Job
           /\ Ended(c).pc = c /\ Ended(c).fd = "none" /\ Ended(c).todo = {}
BY DEF Ended, Job

LEMMA NoJobIsAJob == NoJob \in Job /\ NoJob.pc = "idle" /\ NoJob.fd = "none"
BY DEF NoJob, Job, JobPc, AtWork

LEMMA SetJobType ==
    ASSUME FilesOK, NEW q \in Proc, NEW n \in Final, NEW j \in Job
    PROVE  /\ SetJob(q, n, j) \in [Proc -> [Final -> Job]]
           /\ SetJob(q, n, j)[q][n] = j
           /\ \A r \in Proc, k \in Final : r # q \/ k # n => SetJob(q, n, j)[r][k] = job[r][k]
BY DEF FilesOK, SetJob

\* A renaming moves what is open, and nothing else.
LEMMA RetargetType ==
    ASSUME NEW jobs \in [Proc -> [Final -> Job]], NEW from, NEW to \in Path \cup {"none"}
    PROVE  /\ Retarget(jobs, from, to) \in [Proc -> [Final -> Job]]
           /\ \A q \in Proc, n \in Final :
                /\ Retarget(jobs, from, to)[q][n].pc = jobs[q][n].pc
                /\ Retarget(jobs, from, to)[q][n].todo = jobs[q][n].todo
                /\ Retarget(jobs, from, to)[q][n].fd = Moved(jobs[q][n].fd, from, to)
<1>1. ASSUME NEW q \in Proc, NEW n \in Final
      PROVE  /\ Retarget(jobs, from, to)[q][n] \in Job
             /\ Retarget(jobs, from, to)[q][n].pc = jobs[q][n].pc
             /\ Retarget(jobs, from, to)[q][n].todo = jobs[q][n].todo
             /\ Retarget(jobs, from, to)[q][n].fd = Moved(jobs[q][n].fd, from, to)
      <2>1. PICK j, m : j = jobs[q][n] /\ m = Moved(j.fd, from, to)
            OBVIOUS
      <2>2. j \in Job /\ m \in Path \cup {"none"}
            BY <2>1 DEF Moved, Job
      <2>3. PICK r : r = [j EXCEPT !.fd = m]
            OBVIOUS
      <2>4. r = Retarget(jobs, from, to)[q][n]
            BY <2>1, <2>3 DEF Retarget
      <2>5. r \in Job /\ r.pc = j.pc /\ r.todo = j.todo /\ r.fd = m
            BY <2>2, <2>3 DEF Job
      <2> QED BY <2>1, <2>4, <2>5
<1>2. Retarget(jobs, from, to) \in [Proc -> [Final -> Job]]
      BY <1>1 DEF Retarget
<1> QED BY <1>1, <1>2

\* What a job has open is a path, and one of its own two.
LEMMA OpenIsPath ==
    ASSUME FilesOK, NEW q \in Proc, NEW n \in Final
    PROVE  /\ job[q][n] \in Job
           /\ job[q][n].pc \in JobPc /\ job[q][n].todo \subseteq Block
           /\ job[q][n].fd \in present \cup {"none"}
           /\ job[q][n].fd \in {n, Target(n), "none"} /\ job[q][n].fd \in Path \cup {"none"}
<1>1. job[q][n] \in Job
      BY DEF FilesOK
<1> QED BY <1>1 DEF FilesOK, Job

\* The next block to write is one of those left.
LEMMA NextBlock ==
    ASSUME NEW T \in SUBSET Block, T # {}
    PROVE  (CHOOSE x \in T : \A y \in T : x <= y) \in T
<1>1. T \subseteq Nat
      BY ProvisionAssumption
<1>2. PICK x \in T : \A y \in T : <<y, x>> \notin OpToRel(<, Nat)
      BY <1>1, NatLessThanWellFounded, WFMin
<1>3. \A y, z \in Nat : y < z => <<y, z>> \in OpToRel(<, Nat)
      BY DEF OpToRel
<1>4. ASSUME NEW y \in T PROVE x <= y
      <2>1. ~(y < x)
            BY <1>1, <1>2, <1>3
      <2> QED BY <1>1, <2>1
<1> QED BY <1>4

\* No other job is at a file of this one.
LEMMA OtherFiles ==
    ASSUME NEW n \in Final, NEW k \in Final \ {n}
    PROVE  /\ n # k /\ n # Target(k) /\ Target(n) # k /\ Target(n) # Target(k)
           /\ n # "none" /\ Target(n) # "none" /\ k # "none" /\ Target(k) # "none"
           /\ n \in Path /\ Target(n) \in Path /\ k \in Path /\ Target(k) \in Path
BY Names, Targets

-----------------------------------------------------------------------------
(* The operations on files: that types are kept, and that no file is *)
(* touched but one.                                                  *)

\* A step leaves file k, and who works on it, as they are.
Same(k) ==
    /\ \A q \in Proc : /\ job'[q][k].pc = job[q][k].pc /\ job'[q][k].fd = job[q][k].fd
                       /\ job'[q][k].todo = job[q][k].todo
    /\ \A f \in {k, Target(k)} : (f \in present' <=> f \in present) /\ blocks'[f] = blocks[f]

\* It is about file n, and a step of p.
Only(p, n) ==
    /\ \A k \in Final \ {n} : Same(k)
    /\ \A q \in Proc \ {p} : job'[q][n].pc = job[q][n].pc

LEMMA SetJobOnly ==
    ASSUME FilesOK, NEW p \in Proc, NEW n \in Final, NEW j \in Job, j.fd = "none",
           job' = SetJob(p, n, j), UNCHANGED <<present, blocks>>
    PROVE  /\ FilesOK' /\ Only(p, n) /\ job'[p][n] = j
           /\ \A q \in Proc \ {p} : job'[q][n] = job[q][n]
<1>1. /\ job' \in [Proc -> [Final -> Job]] /\ job'[p][n] = j
      /\ \A r \in Proc, k \in Final : r # p \/ k # n => job'[r][k] = job[r][k]
      BY SetJobType
<1>2. \A r \in Proc, k \in Final : job'[r][k].fd \in (present \cap {k, Target(k)}) \cup {"none"}
      BY <1>1 DEF FilesOK
<1>3. FilesOK'
      BY <1>1, <1>2 DEF FilesOK, Target
<1> QED BY <1>1, <1>3 DEF Only, Same

LEMMA EndOnly ==
    ASSUME FilesOK, NEW p \in Proc, NEW n \in Final, NEW c \in JobPc,
           job' = SetJob(p, n, Ended(c)), UNCHANGED <<present, blocks>>
    PROVE  /\ FilesOK' /\ Only(p, n) /\ job'[p][n].pc = c
           /\ \A q \in Proc \ {p} : job'[q][n] = job[q][n]
<1>1. PICK e : e = Ended(c)
      OBVIOUS
<1>2. e \in Job /\ e.pc = c /\ e.fd = "none" /\ job' = SetJob(p, n, e)
      BY <1>1, EndedIsAJob
<1>3. /\ FilesOK' /\ Only(p, n) /\ job'[p][n] = e
      /\ \A q \in Proc \ {p} : job'[q][n] = job[q][n]
      BY <1>2, SetJobOnly
<1> QED BY <1>2, <1>3

\* A job that has exited: the orphan is gone, or its thread goes on.
LEMMA ExitedIsAJob ==
    ASSUME NEW p, NEW c \in JobPc
    PROVE  /\ Exited(p, c) \in Job /\ Exited(p, c).fd = "none"
           /\ Exited(p, c).pc = IF Orphan(p) THEN "idle" ELSE c
BY EndedIsAJob, NoJobIsAJob DEF Exited

LEMMA ExitOnly ==
    ASSUME FilesOK, NEW p \in Proc, NEW n \in Final, NEW c \in JobPc,
           job' = SetJob(p, n, Exited(p, c)), UNCHANGED <<present, blocks>>
    PROVE  /\ FilesOK' /\ Only(p, n) /\ job'[p][n].pc = IF Orphan(p) THEN "idle" ELSE c
           /\ \A q \in Proc \ {p} : job'[q][n] = job[q][n]
<1>1. PICK e : e = Exited(p, c)
      OBVIOUS
<1>2. /\ e \in Job /\ e.pc = (IF Orphan(p) THEN "idle" ELSE c) /\ e.fd = "none"
      /\ job' = SetJob(p, n, e)
      BY <1>1, ExitedIsAJob
<1>3. /\ FilesOK' /\ Only(p, n) /\ job'[p][n] = e
      /\ \A q \in Proc \ {p} : job'[q][n] = job[q][n]
      BY <1>2, SetJobOnly
<1> QED BY <1>2, <1>3

LEMMA RemoveOnly ==
    ASSUME FilesOK, NEW p \in Proc, NEW n \in Final, NEW f \in {n, Target(n)}, NEW c \in JobPc,
           RemoveAndEnd(p, n, f, c)
    PROVE  /\ FilesOK' /\ Only(p, n) /\ job'[p][n].pc = c
           /\ f \notin present' /\ blocks'[f] = {}
           /\ \A g \in Path \ {f} : (g \in present' <=> g \in present) /\ blocks'[g] = blocks[g]
<1> DEFINE jobs == SetJob(p, n, Ended(c))
<1>1. /\ present' = present \ {f} /\ blocks' = [blocks EXCEPT ![f] = {}]
      /\ job' = Retarget(jobs, f, "none")
      BY DEF RemoveAndEnd
<1>2. f \in Path
      BY Names, Targets
<1>3. /\ jobs \in [Proc -> [Final -> Job]] /\ jobs[p][n].pc = c /\ jobs[p][n].fd = "none"
      /\ \A r \in Proc, k \in Final : r # p \/ k # n => jobs[r][k] = job[r][k]
      <2>1. PICK e : e = Ended(c)
            OBVIOUS
      <2>2. e \in Job /\ e.pc = c /\ e.fd = "none"
            BY <2>1, EndedIsAJob
      <2>3. /\ jobs \in [Proc -> [Final -> Job]] /\ jobs[p][n] = e
            /\ \A r \in Proc, k \in Final : r # p \/ k # n => jobs[r][k] = job[r][k]
            BY <2>1, <2>2, SetJobType
      <2> HIDE DEF jobs
      <2> QED BY <2>2, <2>3
<1> HIDE DEF jobs
<1>4. /\ job' \in [Proc -> [Final -> Job]]
      /\ \A r \in Proc, k \in Final :
           /\ job'[r][k].pc = jobs[r][k].pc /\ job'[r][k].todo = jobs[r][k].todo
           /\ job'[r][k].fd = Moved(jobs[r][k].fd, f, "none")
      BY <1>1, <1>3, RetargetType
<1>5. \A r \in Proc, k \in Final : job'[r][k].fd \in (present' \cap {k, Target(k)}) \cup {"none"}
      BY <1>1, <1>3, <1>4 DEF Moved, FilesOK
<1>6. /\ present' \subseteq Path /\ blocks' \in [Path -> SUBSET Block]
      /\ \A g \in Path \ present' : blocks'[g] = {}
      /\ f \notin present' /\ blocks'[f] = {}
      /\ \A g \in Path \ {f} : (g \in present' <=> g \in present) /\ blocks'[g] = blocks[g]
      BY <1>1, <1>2 DEF FilesOK
<1>7. ASSUME NEW k \in Final \ {n}
      PROVE  Same(k)
      <2>1. f # k /\ f # Target(k) /\ f # "none" /\ k \in Path /\ Target(k) \in Path
            BY OtherFiles
      <2>2. ASSUME NEW q \in Proc
            PROVE  job'[q][k].fd = job[q][k].fd
            <3>1. job[q][k].fd # f
                  BY <2>1, OpenIsPath
            <3>2. k \in Final /\ k # n
                  OBVIOUS
            <3>3. job'[q][k].fd = Moved(job[q][k].fd, f, "none")
                  BY <3>2, <1>3, <1>4
            <3> QED BY <3>1, <3>3 DEF Moved
      <2> QED BY <2>1, <2>2, <1>3, <1>4, <1>6 DEF Same
<1>8. FilesOK'
      BY <1>4, <1>5, <1>6 DEF FilesOK, Target
<1> QED BY <1>3, <1>4, <1>6, <1>7, <1>8 DEF Only

LEMMA OpenOnly ==
    ASSUME FilesOK, NEW p \in Proc, NEW n \in Final, Open(p, n, Target(n))
    PROVE  /\ FilesOK' /\ Only(p, n)
           /\ job'[p][n].pc = "writing" /\ job'[p][n].fd = Target(n) /\ job'[p][n].todo = Block
           /\ Target(n) \in present' /\ blocks'[Target(n)] = {}
           /\ \A g \in Path \ {Target(n)} :
                  (g \in present' <=> g \in present) /\ blocks'[g] = blocks[g]
<1>1. PICK j : j = [pc |-> "writing", fd |-> Target(n), todo |-> Block]
      OBVIOUS
<1>2. /\ present' = present \cup {Target(n)} /\ blocks' = [blocks EXCEPT ![Target(n)] = {}]
      /\ job' = SetJob(p, n, j)
      BY <1>1 DEF Open
<1>3. Target(n) \in Path
      BY Targets
<1>4. j \in Job /\ j.pc = "writing" /\ j.fd = Target(n) /\ j.todo = Block
      BY <1>1, <1>3 DEF Job, JobPc, AtWork
<1>5. /\ job' \in [Proc -> [Final -> Job]] /\ job'[p][n] = j
      /\ \A r \in Proc, k \in Final : r # p \/ k # n => job'[r][k] = job[r][k]
      BY <1>2, <1>4, SetJobType
<1>6. /\ present' \subseteq Path /\ blocks' \in [Path -> SUBSET Block]
      /\ \A g \in Path \ present' : blocks'[g] = {}
      /\ Target(n) \in present' /\ blocks'[Target(n)] = {}
      /\ \A g \in Path \ {Target(n)} :
             (g \in present' <=> g \in present) /\ blocks'[g] = blocks[g]
      BY <1>2, <1>3 DEF FilesOK
<1>7. \A r \in Proc, k \in Final : job'[r][k].fd \in (present' \cap {k, Target(k)}) \cup {"none"}
      BY <1>2, <1>4, <1>5 DEF FilesOK
<1>8. ASSUME NEW k \in Final \ {n}
      PROVE  Same(k)
      <2>1. Target(n) # k /\ Target(n) # Target(k) /\ k \in Path /\ Target(k) \in Path
            BY OtherFiles
      <2> QED BY <2>1, <1>5, <1>6 DEF Same
<1>9. FilesOK'
      BY <1>5, <1>6, <1>7 DEF FilesOK, Target
<1> QED BY <1>4, <1>5, <1>6, <1>8, <1>9 DEF Only

\* The job of p for n writes B to what it has open, and goes on as j.
Writes(p, n, j, B) ==
    /\ job' = SetJob(p, n, j) /\ present' = present
    /\ j.fd \in {job[p][n].fd, "none"}
    /\ blocks' = IF job[p][n].fd = "none" THEN blocks
                 ELSE [blocks EXCEPT ![job[p][n].fd] = B]

LEMMA WriteOnly ==
    ASSUME FilesOK, NEW p \in Proc, NEW n \in Final, NEW j \in Job, NEW B \in SUBSET Block,
           Writes(p, n, j, B)
    PROVE  /\ FilesOK' /\ Only(p, n) /\ job'[p][n] = j
           /\ \A g \in Path : blocks'[g] = IF g = job[p][n].fd THEN B ELSE blocks[g]
           /\ \A q \in Proc \ {p} : job'[q][n] = job[q][n]
<1>1. PICK d : d = job[p][n].fd
      OBVIOUS
<1>2. d \in {n, Target(n), "none"} /\ d \in present \cup {"none"} /\ d \in Path \cup {"none"}
      BY <1>1, OpenIsPath
<1>3. /\ job' \in [Proc -> [Final -> Job]] /\ job'[p][n] = j
      /\ \A r \in Proc, k \in Final : r # p \/ k # n => job'[r][k] = job[r][k]
      BY SetJobType DEF Writes
<1>4. /\ blocks' \in [Path -> SUBSET Block]
      /\ \A g \in Path : blocks'[g] = IF g = d THEN B ELSE blocks[g]
      BY <1>1, <1>2, Names DEF FilesOK, Writes
<1>5. \A g \in Path \ present' : blocks'[g] = {}
      BY <1>2, <1>4, Names DEF FilesOK, Writes
<1>6. \A r \in Proc, k \in Final : job'[r][k].fd \in (present' \cap {k, Target(k)}) \cup {"none"}
      BY <1>1, <1>2, <1>3 DEF FilesOK, Writes
<1>7. ASSUME NEW k \in Final \ {n}
      PROVE  Same(k)
      <2>1. d # k /\ d # Target(k) /\ k \in Path /\ Target(k) \in Path
            BY <1>2, OtherFiles
      <2> QED BY <2>1, <1>3, <1>4 DEF Same, Writes
<1>8. FilesOK'
      <2>1. present' \subseteq Path
            BY DEF FilesOK, Writes
      <2> QED BY <2>1, <1>3, <1>4, <1>5, <1>6 DEF FilesOK, Target
<1> QED BY <1>1, <1>3, <1>4, <1>7, <1>8 DEF Only

LEMMA RenameOnly ==
    ASSUME FilesOK, NEW p \in Proc, NEW n \in Download, DownloadRename(p, n), Tmp(n) \in present
    PROVE  /\ FilesOK' /\ Only(p, n) /\ job'[p][n].pc = "ok"
           /\ n \in present' /\ blocks'[n] = blocks[Tmp(n)] /\ Tmp(n) \notin present'
<1> DEFINE jobs == SetJob(p, n, Ended("ok"))
<1>1. /\ present' = (present \ {Tmp(n)}) \cup {n}
      /\ blocks' = [blocks EXCEPT ![n] = blocks[Tmp(n)], ![Tmp(n)] = {}]
      /\ job' = Retarget(jobs, Tmp(n), n)
      BY DEF DownloadRename
<1>2. /\ n \in Final /\ n \in Path /\ Tmp(n) \in Path /\ n # Tmp(n) /\ Target(n) = Tmp(n)
      /\ n # "none" /\ Tmp(n) # "none" /\ "ok" \in JobPc
      BY Names, Targets DEF JobPc
<1>3. /\ jobs \in [Proc -> [Final -> Job]] /\ jobs[p][n].pc = "ok" /\ jobs[p][n].fd = "none"
      /\ \A r \in Proc, k \in Final : r # p \/ k # n => jobs[r][k] = job[r][k]
      <2>1. PICK e : e = Ended("ok")
            OBVIOUS
      <2>2. e \in Job /\ e.pc = "ok" /\ e.fd = "none"
            BY <1>2, <2>1, EndedIsAJob
      <2>3. /\ jobs \in [Proc -> [Final -> Job]] /\ jobs[p][n] = e
            /\ \A r \in Proc, k \in Final : r # p \/ k # n => jobs[r][k] = job[r][k]
            BY <1>2, <2>1, <2>2, SetJobType
      <2> HIDE DEF jobs
      <2> QED BY <2>2, <2>3
<1> HIDE DEF jobs
<1>4. /\ job' \in [Proc -> [Final -> Job]]
      /\ \A r \in Proc, k \in Final :
           /\ job'[r][k].pc = jobs[r][k].pc /\ job'[r][k].todo = jobs[r][k].todo
           /\ job'[r][k].fd = Moved(jobs[r][k].fd, Tmp(n), n)
      BY <1>1, <1>2, <1>3, RetargetType
<1>5. ASSUME NEW k \in Final \ {n}, NEW q \in Proc
      PROVE  job'[q][k].fd = job[q][k].fd
      <2>1. Tmp(n) # k /\ Tmp(n) # Target(k) /\ n # k /\ n # Target(k)
            BY <1>2, OtherFiles
      <2>2. job[q][k].fd # n /\ job[q][k].fd # Tmp(n)
            BY <2>1, <1>2, OpenIsPath
      <2> QED BY <2>2, <1>3, <1>4 DEF Moved
<1>6. ASSUME NEW k \in Final \ {n}
      PROVE  Same(k)
      <2>1. Tmp(n) # k /\ Tmp(n) # Target(k) /\ n # k /\ n # Target(k)
            BY <1>2, OtherFiles
      <2>2. k \in Path /\ Target(k) \in Path
            BY Names, Targets
      <2>3. \A f \in {k, Target(k)} : (f \in present' <=> f \in present) /\ blocks'[f] = blocks[f]
            BY <1>1, <2>1, <2>2 DEF FilesOK
      <2> QED BY <2>3, <1>3, <1>4, <1>5 DEF Same
<1>7. \A r \in Proc, k \in Final : job'[r][k].fd \in (present' \cap {k, Target(k)}) \cup {"none"}
      <2>1. ASSUME NEW r \in Proc
            PROVE  job'[r][n].fd \in {n, "none"}
            <3>1. jobs[r][n].fd \in {n, Tmp(n), "none"}
                  BY <1>2, <1>3, OpenIsPath
            <3> QED BY <3>1, <1>2, <1>4 DEF Moved
      <2>2. ASSUME NEW r \in Proc, NEW k \in Final \ {n}
            PROVE  job'[r][k].fd \in (present' \cap {k, Target(k)}) \cup {"none"}
            <3>1. job[r][k].fd \in (present \cap {k, Target(k)}) \cup {"none"}
                  BY DEF FilesOK
            <3> QED BY <3>1, <1>1, <1>2, <1>5, OtherFiles
      <2> QED BY <2>1, <2>2, <1>1
<1>8. /\ present' \subseteq Path /\ blocks' \in [Path -> SUBSET Block]
      /\ \A g \in Path \ present' : blocks'[g] = {}
      /\ n \in present' /\ blocks'[n] = blocks[Tmp(n)] /\ Tmp(n) \notin present'
      BY <1>1, <1>2 DEF FilesOK
<1>9. FilesOK'
      BY <1>4, <1>7, <1>8 DEF FilesOK, Target
<1> QED BY <1>2, <1>3, <1>4, <1>6, <1>8, <1>9 DEF Only

-----------------------------------------------------------------------------
(* What a step on one file keeps. *)

\* The files that no start makes again.
Kept == {"tokenizer", "config", "vocab", "engine"}

\* A step of p on file n, and what is true of n afterwards if it is not mixed.
Holds(p, n) ==
    /\ \A q \in Proc : Good(q, n)'
    /\ Found(n)'
    /\ n \in Needed /\ There(n) => There(n)'
    /\ n \in Kept /\ Whole(n) => Whole(n)'
    /\ n \in Needed /\ job'[p][n].pc = "ok" => There(n)' \/ job[p][n].pc = "ok"
Works(p, n) ==
    /\ Only(p, n)
    /\ \A k \in Final \ {n} : k \in hurt' <=> k \in hurt
    /\ n \notin mixed' => Holds(p, n)

\* What is mixed stays so.
LEMMA NotMixed ==
    ASSUME Inv, Mixes, NEW n \in Final, n \notin mixed'
    PROVE  /\ n \notin mixed /\ Found(n) /\ Seen(n) /\ \A q \in Proc : Good(q, n)
           /\ \A q, r \in Proc : q # r =>
                /\ job[q][n].pc \notin AtWork \/ job[r][n].pc \notin AtWork
                /\ job'[q][n].pc \notin AtWork \/ job'[r][n].pc \notin AtWork
<1>1. n \notin mixed /\ n \notin Clashing(job) /\ n \notin Clashing(job')
      BY DEF Inv, Mixes
<1> QED BY <1>1 DEF Clashing, Inv, Sound

\* Only p is at work on n, and so only p relies on anything.
LEMMA OnlyWorker ==
    ASSUME Inv, Mixes, NEW p \in Proc, NEW n \in Final, n \notin mixed', Only(p, n),
           job[p][n].pc \in AtWork \/ job'[p][n].pc \in AtWork, Good(p, n)'
    PROVE  /\ \A q \in Proc : Good(q, n)'
           /\ \A q \in Proc \ {p} : job[q][n].pc \notin AtWork /\ job'[q][n].pc \notin AtWork
<1>1. \A q \in Proc \ {p} : job[q][n].pc \notin AtWork /\ job'[q][n].pc \notin AtWork
      BY NotMixed DEF Only
<1>2. \A q \in Proc \ {p} : Good(q, n)'
      BY <1>1 DEF Good, AtWork
<1> QED BY <1>1, <1>2

\* The step changes nothing that another place relies on.
LEMMA OthersStay ==
    ASSUME Inv, NEW p \in Proc, NEW n \in Final, n \notin mixed,
           \A q \in Proc \ {p} : job'[q][n] = job[q][n],
           UNCHANGED <<present, blocks>>
    PROVE  \A q \in Proc \ {p} : Good(q, n)'
BY DEF Inv, Sound, Good

LEMMA DownloadNames ==
    ASSUME NEW n \in Download
    PROVE  /\ n \in Final /\ n \in Path /\ n \notin Built /\ n \notin {"vocab", "engine"}
           /\ Target(n) = Tmp(n) /\ Tmp(n) \in Path /\ Tmp(n) # n
           /\ n # "none" /\ Tmp(n) # "none"
BY Names, Targets DEF Built

LEMMA BuiltNames ==
    ASSUME NEW n \in Built
    PROVE  /\ n \in Final /\ n \in Path /\ n \notin Download /\ n # "engine"
           /\ Target(n) = n /\ n # "none" /\ n \in Needed
BY Names, Targets DEF Built, Needed

LEMMA EngineNames ==
    /\ "engine" \in Final /\ "engine" \in Path /\ Target("engine") = "engine"
    /\ "engine" \notin Download /\ "engine" \notin Built /\ "engine" \notin Needed
BY Names, Targets DEF Needed

\* Downloads.
LEMMA DownloadCheckWorks ==
    ASSUME Inv, Mixes, NEW p \in Proc, NEW n \in Download, DownloadCheck(p, n)
    PROVE  FilesOK' /\ Works(p, n)
<1>1. FilesOK /\ UNCHANGED hurt /\ job[p][n].pc = "check" /\ {"ok", "fetch"} \subseteq JobPc
      BY DEF Inv, DownloadCheck, history, JobPc, AtWork
<1>2. CASE Nonempty(n)
      <2>1. job' = SetJob(p, n, Ended("ok")) /\ UNCHANGED <<present, blocks>>
            BY <1>2 DEF DownloadCheck
      <2>2. /\ FilesOK' /\ Only(p, n) /\ job'[p][n].pc = "ok"
            /\ \A q \in Proc \ {p} : job'[q][n] = job[q][n]
            BY <1>1, <2>1, DownloadNames, EndOnly
      <2>3. ASSUME n \notin mixed'
            PROVE  Holds(p, n)
            <3>1. n \notin mixed /\ Found(n)
                  BY <2>3, DownloadNames, NotMixed
            <3>2. \A q \in Proc \ {p} : Good(q, n)'
                  BY <3>1, <2>1, <2>2, DownloadNames, OthersStay
            <3>3. Good(p, n)'
                  BY <2>2, DownloadNames DEF Good
            <3>4. Found(n)' /\ There(n)'
                  BY <3>1, <2>1, <1>2, DownloadNames DEF Found, There, Nonempty
            <3>5. n \in Kept /\ Whole(n) => Whole(n)'
                  BY <2>1 DEF Whole
            <3> QED BY <3>2, <3>3, <3>4, <3>5 DEF Holds
      <2> QED BY <1>1, <2>2, <2>3 DEF Works
<1>3. CASE ~Nonempty(n)
      <2>1. RemoveAndEnd(p, n, n, "fetch")
            BY <1>3 DEF DownloadCheck
      <2>2. /\ FilesOK' /\ Only(p, n) /\ job'[p][n].pc = "fetch"
            /\ n \notin present'
            BY <1>1, <2>1, DownloadNames, RemoveOnly
      <2>3. ASSUME n \notin mixed'
            PROVE  Holds(p, n)
            <3>1. n \notin mixed /\ Found(n)
                  BY <2>3, DownloadNames, NotMixed
            <3>2. n \notin present
                  BY <3>1, <1>3, ProvisionAssumption DEF Found, Nonempty
            <3>3. Good(p, n)'
                  BY <2>2, DownloadNames DEF Good
            <3>4. \A q \in Proc : Good(q, n)'
                  BY <2>2, <2>3, <3>3, DownloadNames, OnlyWorker DEF AtWork
            <3>5. Found(n)'
                  BY <2>2, DownloadNames DEF Found
            <3> QED BY <2>2, <3>2, <3>4, <3>5 DEF Holds, There, Whole
      <2> QED BY <1>1, <2>2, <2>3 DEF Works
<1> QED BY <1>2, <1>3

\* curl, and its thread after it, leave the file under the final name alone.
LEMMA TmpHolds ==
    ASSUME Inv, Mixes, NEW p \in Proc, NEW n \in Download, n \notin mixed', Only(p, n),
           job[p][n].pc \in AtWork, Good(p, n)', job'[p][n].pc # "ok",
           n \in present' <=> n \in present, blocks'[n] = blocks[n]
    PROVE  Holds(p, n)
<1>1. n \notin mixed /\ Found(n)
      BY DownloadNames, NotMixed
<1>2. \A q \in Proc : Good(q, n)'
      BY DownloadNames, OnlyWorker
<1>3. Found(n)'
      BY <1>1, DownloadNames DEF Found
<1>4. (There(n) => There(n)') /\ (Whole(n) => Whole(n)')
      BY DEF There, Whole
<1> QED BY <1>2, <1>3, <1>4 DEF Holds

LEMMA DownloadOpenWorks ==
    ASSUME Inv, Mixes, NEW p \in Proc, NEW n \in Download, DownloadOpen(p, n)
    PROVE  FilesOK' /\ Works(p, n)
<1>1. /\ FilesOK /\ job[p][n].pc = "fetch" /\ Open(p, n, Target(n)) /\ hurt' = hurt \ {n}
      BY DownloadNames DEF Inv, DownloadOpen, Open
<1>2. /\ FilesOK' /\ Only(p, n)
      /\ job'[p][n].pc = "writing" /\ job'[p][n].fd = Target(n) /\ job'[p][n].todo = Block
      /\ blocks'[Target(n)] = {}
      /\ (n \in present' <=> n \in present) /\ blocks'[n] = blocks[n]
      BY <1>1, DownloadNames, OpenOnly
<1>3. Good(p, n)'
      BY <1>2, DownloadNames DEF Good
<1>4. n \notin mixed' => Holds(p, n)
      BY <1>1, <1>2, <1>3, TmpHolds DEF AtWork
<1> QED BY <1>1, <1>2, <1>4 DEF Works

LEMMA DownloadRetryWorks ==
    ASSUME Inv, Mixes, NEW p \in Proc, NEW n \in Download, DownloadRetry(p, n)
    PROVE  FilesOK' /\ Works(p, n)
<1>1. PICK i, j, B : i = job[p][n] /\ j = [i EXCEPT !.todo = Block] /\ B = {}
      OBVIOUS
<1>2. FilesOK /\ i \in Job /\ B \in SUBSET Block
      BY <1>1, DownloadNames, OpenIsPath DEF Inv
<1>3. j \in Job /\ j.pc = i.pc /\ j.fd = i.fd /\ j.todo = Block
      BY <1>1, <1>2 DEF Job
<1>4. /\ i.pc = "writing" /\ job' = SetJob(p, n, j) /\ present' = present /\ UNCHANGED hurt
      /\ blocks' = IF job[p][n].fd = "none" THEN blocks ELSE [blocks EXCEPT ![job[p][n].fd] = B]
      BY <1>1 DEF DownloadRetry, history
<1>5. j.fd \in {job[p][n].fd, "none"}
      BY <1>1, <1>3
<1>6. /\ FilesOK' /\ Only(p, n) /\ job'[p][n] = j
      /\ \A g \in Path : blocks'[g] = IF g = job[p][n].fd THEN B ELSE blocks[g]
      <2>1. n \in Final /\ FilesOK /\ j \in Job /\ B \in SUBSET Block
            BY <1>2, <1>3, DownloadNames
      <2>2. Writes(p, n, j, B)
            BY <1>4, <1>5 DEF Writes
      <2> QED BY <2>1, <2>2, WriteOnly
<1>7. ASSUME n \notin mixed'
      PROVE  Holds(p, n)
      <2>1. Good(p, n)
            BY <1>7, DownloadNames, NotMixed
      <2>2. i.fd = Target(n)
            BY <1>1, <1>4, <2>1, DownloadNames DEF Good
      <2>3. blocks'[n] = blocks[n] /\ blocks'[Target(n)] = {}
            BY <1>1, <1>6, <2>2, DownloadNames
      <2>4. Good(p, n)'
            BY <1>1, <1>3, <1>4, <1>6, <2>2, <2>3, DownloadNames DEF Good
      <2> QED BY <1>1, <1>3, <1>4, <1>6, <1>7, <2>3, <2>4, TmpHolds DEF AtWork
<1> QED BY <1>4, <1>6, <1>7 DEF Works

LEMMA DownloadFailsWorks ==
    ASSUME Inv, Mixes, NEW p \in Proc, NEW n \in Download, DownloadFails(p, n)
    PROVE  FilesOK' /\ Works(p, n)
<1>1. FilesOK /\ UNCHANGED hurt /\ job[p][n].pc \in AtWork /\ "err" \in JobPc
      BY DEF Inv, DownloadFails, history, AtWork, JobPc
<1>2. /\ FilesOK' /\ Only(p, n) /\ job'[p][n].pc \in {"idle", "err"}
      /\ (n \in present' <=> n \in present) /\ blocks'[n] = blocks[n]
      <2>1. CASE Orphan(p)
            <3>1. job' = SetJob(p, n, NoJob) /\ UNCHANGED <<present, blocks>>
                  BY <2>1 DEF DownloadFails
            <3>2. PICK e : e = NoJob
                  OBVIOUS
            <3>3. e \in Job /\ e.pc = "idle" /\ e.fd = "none" /\ job' = SetJob(p, n, e)
                  BY <3>1, <3>2, NoJobIsAJob
            <3>4. FilesOK' /\ Only(p, n) /\ job'[p][n] = e
                  BY <1>1, <3>1, <3>3, DownloadNames, SetJobOnly
            <3> QED BY <3>1, <3>3, <3>4
      <2>2. CASE ~Orphan(p)
            <3>1. RemoveAndEnd(p, n, Tmp(n), "err")
                  BY <2>2 DEF DownloadFails
            <3> QED BY <1>1, <3>1, DownloadNames, RemoveOnly
      <2> QED BY <2>1, <2>2
<1>3. Good(p, n)'
      BY <1>2, DownloadNames DEF Good
<1>4. n \notin mixed' => Holds(p, n)
      BY <1>1, <1>2, <1>3, TmpHolds
<1> QED BY <1>1, <1>2, <1>4 DEF Works

LEMMA DownloadSizeWorks ==
    ASSUME Inv, Mixes, NEW p \in Proc, NEW n \in Download, DownloadSize(p, n)
    PROVE  FilesOK' /\ Works(p, n)
<1>1. /\ FilesOK /\ UNCHANGED hurt /\ job[p][n].pc = "closed" /\ {"sized", "err"} \subseteq JobPc
      BY DEF Inv, DownloadSize, history, AtWork, JobPc
<1>2. CASE Nonempty(Tmp(n))
      <2>1. job' = SetJob(p, n, Ended("sized")) /\ UNCHANGED <<present, blocks>>
            BY <1>2 DEF DownloadSize
      <2>2. FilesOK' /\ Only(p, n) /\ job'[p][n].pc = "sized"
            BY <1>1, <2>1, DownloadNames, EndOnly
      <2>3. ASSUME n \notin mixed'
            PROVE  Holds(p, n)
            <3>1. Good(p, n)
                  BY <2>3, DownloadNames, NotMixed
            <3>2. Good(p, n)'
                  BY <1>1, <2>1, <2>2, <3>1, DownloadNames DEF Good
            <3> QED BY <1>1, <2>1, <2>2, <2>3, <3>2, TmpHolds DEF AtWork
      <2> QED BY <1>1, <2>2, <2>3 DEF Works
<1>3. CASE ~Nonempty(Tmp(n))
      <2>1. RemoveAndEnd(p, n, Tmp(n), "err")
            BY <1>3 DEF DownloadSize
      <2>2. /\ FilesOK' /\ Only(p, n) /\ job'[p][n].pc = "err"
            /\ (n \in present' <=> n \in present) /\ blocks'[n] = blocks[n]
            BY <1>1, <2>1, DownloadNames, RemoveOnly
      <2>3. Good(p, n)'
            BY <2>2, DownloadNames DEF Good
      <2>4. n \notin mixed' => Holds(p, n)
            BY <1>1, <2>2, <2>3, TmpHolds DEF AtWork
      <2> QED BY <1>1, <2>2, <2>4 DEF Works
<1> QED BY <1>2, <1>3

LEMMA DownloadRenameWorks ==
    ASSUME Inv, Mixes, NEW p \in Proc, NEW n \in Download, DownloadRename(p, n)
    PROVE  FilesOK' /\ Works(p, n)
<1>1. FilesOK /\ UNCHANGED hurt /\ job[p][n].pc = "sized" /\ "err" \in JobPc
      BY DEF Inv, DownloadRename, history, AtWork, JobPc
<1>2. CASE Tmp(n) \in present
      <2>1. /\ FilesOK' /\ Only(p, n) /\ job'[p][n].pc = "ok"
            /\ n \in present' /\ blocks'[n] = blocks[Tmp(n)]
            BY <1>1, <1>2, RenameOnly
      <2>2. ASSUME n \notin mixed'
            PROVE  Holds(p, n)
            <3>1. Good(p, n)
                  BY <2>2, DownloadNames, NotMixed
            <3>2. blocks'[n] = Block
                  BY <1>1, <2>1, <3>1, DownloadNames DEF Good
            <3>3. Good(p, n)'
                  BY <2>1, DownloadNames DEF Good
            <3>4. \A q \in Proc : Good(q, n)'
                  BY <1>1, <2>1, <2>2, <3>3, DownloadNames, OnlyWorker DEF AtWork
            <3>5. Found(n)' /\ There(n)' /\ Whole(n)'
                  BY <2>1, <3>2, DownloadNames DEF Found, There, Whole
            <3> QED BY <3>4, <3>5 DEF Holds
      <2> QED BY <1>1, <2>1, <2>2 DEF Works
<1>3. CASE Tmp(n) \notin present
      <2>1. job' = SetJob(p, n, Ended("err")) /\ UNCHANGED <<present, blocks>>
            BY <1>3 DEF DownloadRename
      <2>2. FilesOK' /\ Only(p, n) /\ job'[p][n].pc = "err"
            BY <1>1, <2>1, DownloadNames, EndOnly
      <2>3. Good(p, n)'
            BY <2>2, DownloadNames DEF Good
      <2>4. n \notin mixed' => Holds(p, n)
            BY <1>1, <2>1, <2>2, <2>3, TmpHolds DEF AtWork
      <2> QED BY <1>1, <2>2, <2>4 DEF Works
<1> QED BY <1>2, <1>3

LEMMA RemoveRawWorks ==
    ASSUME Inv, Mixes, NEW p \in Proc, RemoveRaw(p)
    PROVE  FilesOK' /\ Works(p, "raw") /\ \A q \in Proc, k \in Final : job'[q][k].pc = job[q][k].pc
<1>1. /\ present' = present \ {"raw"} /\ blocks' = [blocks EXCEPT !["raw"] = {}]
      /\ job' = Retarget(job, "raw", "none") /\ FilesOK /\ UNCHANGED hurt
      BY DEF RemoveRaw, Inv, history
<1>2. "raw" \in Download
      BY DEF Download
<1>3. /\ job' \in [Proc -> [Final -> Job]]
      /\ \A q \in Proc, k \in Final :
           /\ job'[q][k].pc = job[q][k].pc /\ job'[q][k].todo = job[q][k].todo
           /\ job'[q][k].fd = Moved(job[q][k].fd, "raw", "none")
      BY <1>1, RetargetType DEF FilesOK
<1>4. \A q \in Proc, k \in Final : job'[q][k].fd \in (present' \cap {k, Target(k)}) \cup {"none"}
      BY <1>1, <1>3 DEF Moved, FilesOK
<1>5. /\ present' \subseteq Path /\ blocks' \in [Path -> SUBSET Block]
      /\ \A g \in Path \ present' : blocks'[g] = {}
      /\ "raw" \notin present'
      /\ \A g \in Path \ {"raw"} : (g \in present' <=> g \in present) /\ blocks'[g] = blocks[g]
      BY <1>1, <1>2, DownloadNames DEF FilesOK
<1>6. ASSUME NEW k \in Final \ {"raw"}
      PROVE  Same(k)
      <2>1. "raw" # k /\ "raw" # Target(k) /\ k \in Path /\ Target(k) \in Path
            BY <1>2, DownloadNames, OtherFiles
      <2>2. ASSUME NEW q \in Proc
            PROVE  job'[q][k].fd = job[q][k].fd
            <3>1. job[q][k].fd # "raw"
                  BY <1>1, <2>1, OpenIsPath
            <3>2. job'[q][k].fd = Moved(job[q][k].fd, "raw", "none")
                  BY <1>3
            <3> QED BY <3>1, <3>2 DEF Moved
      <2> QED BY <2>1, <2>2, <1>3, <1>5 DEF Same
<1>7. FilesOK'
      BY <1>3, <1>4, <1>5 DEF FilesOK, Target
<1>8. ASSUME "raw" \notin mixed'
      PROVE  Holds(p, "raw")
      <2>1. \A q \in Proc : Good(q, "raw")
            BY <1>2, <1>8, DownloadNames, NotMixed
      <2>2. ASSUME NEW q \in Proc
            PROVE  Good(q, "raw")'
            <3>1. job[q]["raw"].pc = "writing" => job[q]["raw"].fd = Tmp("raw")
                  BY <1>2, <2>1, DownloadNames DEF Good
            <3>2. job'[q]["raw"].pc = "writing" => job'[q]["raw"].fd = Tmp("raw")
                  BY <1>2, <1>3, <3>1, DownloadNames DEF Moved
            <3> QED BY <1>2, <1>3, <1>5, <2>1, <3>2, DownloadNames DEF Good
      <2>3. Found("raw")'
            BY <1>2, <1>5, DownloadNames DEF Found
      <2> QED BY <2>2, <2>3 DEF Holds, Needed, Kept
<1>9. Only(p, "raw")
      BY <1>2, <1>3, <1>6, DownloadNames DEF Only
<1>10. Works(p, "raw")
      BY <1>1, <1>8, <1>9 DEF Works
<1> QED BY <1>3, <1>7, <1>10

\* Scripts.
LEMMA VocabCheckWorks ==
    ASSUME Inv, Mixes, NEW p \in Proc, VocabCheck(p)
    PROVE  FilesOK' /\ Works(p, "vocab")
<1>1. /\ FilesOK /\ UNCHANGED hurt /\ job[p]["vocab"].pc = "check"
      /\ {"ok", "fetch"} \subseteq JobPc /\ "vocab" \in Built
      BY DEF Inv, VocabCheck, history, JobPc, AtWork, Built
<1>2. CASE Nonempty("vocab")
      <2>1. job' = SetJob(p, "vocab", Ended("ok")) /\ UNCHANGED <<present, blocks>>
            BY <1>2 DEF VocabCheck
      <2>2. /\ FilesOK' /\ Only(p, "vocab") /\ job'[p]["vocab"].pc = "ok"
            /\ \A q \in Proc \ {p} : job'[q]["vocab"] = job[q]["vocab"]
            BY <1>1, <2>1, BuiltNames, EndOnly
      <2>3. ASSUME "vocab" \notin mixed'
            PROVE  Holds(p, "vocab")
            <3>1. "vocab" \notin mixed /\ Found("vocab")
                  BY <1>1, <2>3, BuiltNames, NotMixed
            <3>2. \A q \in Proc \ {p} : Good(q, "vocab")'
                  BY <3>1, <1>1, <2>1, <2>2, BuiltNames, OthersStay
            <3>3. Good(p, "vocab")'
                  BY <2>2 DEF Good
            <3>4. Writing("vocab") => Writing("vocab")'
                  BY <1>1, <2>2 DEF Writing
            <3>5. Found("vocab")'
                  BY <3>1, <3>4, <1>1, <2>1, BuiltNames DEF Found
            <3>6. There("vocab")'
                  BY <2>1, <1>2 DEF There, Nonempty
            <3>7. Whole("vocab") => Whole("vocab")'
                  BY <2>1 DEF Whole
            <3> QED BY <3>2, <3>3, <3>5, <3>6, <3>7 DEF Holds
      <2> QED BY <1>1, <2>2, <2>3 DEF Works
<1>3. CASE ~Nonempty("vocab")
      <2>1. RemoveAndEnd(p, "vocab", "vocab", "fetch")
            BY <1>3 DEF VocabCheck
      <2>2. /\ FilesOK' /\ Only(p, "vocab") /\ job'[p]["vocab"].pc = "fetch"
            /\ "vocab" \notin present'
            BY <1>1, <2>1, BuiltNames, RemoveOnly
      <2>3. ASSUME "vocab" \notin mixed'
            PROVE  Holds(p, "vocab")
            <3>1. Good(p, "vocab")'
                  BY <2>2 DEF Good
            <3>2. \A q \in Proc : Good(q, "vocab")'
                  BY <1>1, <2>2, <2>3, <3>1, BuiltNames, OnlyWorker DEF AtWork
            <3>3. Found("vocab")'
                  BY <1>1, <2>2, BuiltNames DEF Found
            <3>4. ~There("vocab") /\ ~Whole("vocab")
                  BY <1>3, ProvisionAssumption DEF There, Whole, Nonempty
            <3> QED BY <2>2, <3>2, <3>3, <3>4 DEF Holds
      <2> QED BY <1>1, <2>2, <2>3 DEF Works
<1> QED BY <1>2, <1>3

LEMMA ScriptOpenWorks ==
    ASSUME Inv, Mixes, NEW p \in Proc, NEW n \in Built, ScriptOpen(p, n)
    PROVE  FilesOK' /\ Works(p, n)
<1>1. FilesOK /\ job[p][n].pc = "fetch" /\ "err" \in JobPc
      BY DEF Inv, ScriptOpen, JobPc
<1>2. ASSUME n \notin mixed'
      PROVE  /\ n \notin mixed /\ Found(n) /\ (n = "vocab" => n \notin present)
             /\ \A q \in Proc \ {p} : job[q][n].pc \notin AtWork
      <2>1. n \notin mixed /\ Found(n) /\ Good(p, n)
            BY <1>2, BuiltNames, NotMixed
      <2>2. \A q \in Proc \ {p} : job[q][n].pc \notin AtWork
            BY <1>1, <1>2, BuiltNames, NotMixed DEF AtWork
      <2> QED BY <1>1, <2>1, <2>2 DEF Good
<1>3. CASE Whole(Input[n])
      <2>1. Open(p, n, Target(n)) /\ hurt' = hurt \ {n}
            BY <1>3, BuiltNames DEF ScriptOpen, Open
      <2>2. /\ FilesOK' /\ Only(p, n)
            /\ job'[p][n].pc = "writing" /\ job'[p][n].fd = n /\ job'[p][n].todo = Block
            /\ n \in present' /\ blocks'[n] = {}
            BY <1>1, <2>1, BuiltNames, OpenOnly
      <2>3. ASSUME n \notin mixed'
            PROVE  Holds(p, n)
            <3>1. Good(p, n)'
                  BY <2>2, BuiltNames DEF Good
            <3>2. \A q \in Proc : Good(q, n)'
                  BY <1>1, <2>2, <2>3, <3>1, BuiltNames, OnlyWorker DEF AtWork
            <3>3. Found(n)'
                  BY <2>2, BuiltNames DEF Found, Writing
            <3>4. (There(n) => There(n)') /\ (n \in Kept => ~Whole(n))
                  BY <1>2, <2>2, <2>3 DEF There, Whole, Kept, Built
            <3> QED BY <2>2, <3>2, <3>3, <3>4 DEF Holds
      <2> QED BY <2>1, <2>2, <2>3 DEF Works
<1>4. CASE ~Whole(Input[n])
      <2>1. job' = SetJob(p, n, Exited(p, "err")) /\ UNCHANGED <<present, blocks, hurt>>
            BY <1>4 DEF ScriptOpen, disk, history
      <2>2. FilesOK' /\ Only(p, n) /\ job'[p][n].pc \in {"idle", "err"}
            BY <1>1, <2>1, BuiltNames, ExitOnly
      <2>3. ASSUME n \notin mixed'
            PROVE  Holds(p, n)
            <3>1. Good(p, n)'
                  BY <2>2 DEF Good
            <3>2. \A q \in Proc : Good(q, n)'
                  BY <1>1, <2>2, <2>3, <3>1, BuiltNames, OnlyWorker DEF AtWork
            <3>3. ~Writing(n)
                  BY <1>1, <1>2, <2>3 DEF Writing, AtWork
            <3>4. Found(n)'
                  BY <1>2, <2>1, <2>3, <3>3, BuiltNames DEF Found
            <3>5. (There(n) => There(n)') /\ (Whole(n) => Whole(n)')
                  BY <2>1 DEF There, Whole
            <3> QED BY <2>2, <3>2, <3>4, <3>5 DEF Holds
      <2> QED BY <2>1, <2>2, <2>3 DEF Works
<1> QED BY <1>3, <1>4

LEMMA ScriptFailsWorks ==
    ASSUME Inv, Mixes, NEW p \in Proc, NEW n \in Built, ScriptFails(p, n)
    PROVE  FilesOK' /\ Works(p, n)
<1>1. /\ FilesOK /\ job[p][n].pc \in {"fetch", "writing"} /\ "err" \in JobPc
      /\ job' = SetJob(p, n, Exited(p, "err")) /\ UNCHANGED <<present, blocks>>
      /\ hurt' = IF job[p][n].pc = "writing" THEN hurt \cup {n} ELSE hurt
      BY DEF Inv, ScriptFails, JobPc, disk
<1>2. FilesOK' /\ Only(p, n) /\ job'[p][n].pc \in {"idle", "err"}
      BY <1>1, BuiltNames, ExitOnly
<1>3. ASSUME n \notin mixed'
      PROVE  Holds(p, n)
      <2>1. Good(p, n)'
            BY <1>2 DEF Good
      <2>2. /\ \A q \in Proc : Good(q, n)'
            /\ \A q \in Proc \ {p} : job[q][n].pc \notin AtWork
            BY <1>1, <1>2, <1>3, <2>1, BuiltNames, OnlyWorker DEF AtWork
      <2>3. Writing(n) => n \in hurt'
            BY <1>1, <2>2 DEF Writing, AtWork
      <2>4. Found(n)
            BY <1>3, BuiltNames, NotMixed
      <2>5. Found(n)'
            BY <1>1, <2>3, <2>4, BuiltNames DEF Found
      <2>6. (There(n) => There(n)') /\ (Whole(n) => Whole(n)')
            BY <1>1 DEF There, Whole
      <2> QED BY <1>2, <2>2, <2>5, <2>6 DEF Holds
<1> QED BY <1>1, <1>2, <1>3 DEF Works

LEMMA ScriptCheckWorks ==
    ASSUME Inv, Mixes, NEW p \in Proc, NEW n \in Built, ScriptCheck(p, n)
    PROVE  FilesOK' /\ Works(p, n)
<1>1. PICK c \in JobPc : c = IF Nonempty(n) THEN "ok" ELSE "err"
      BY DEF JobPc
<1>2. /\ FilesOK /\ job[p][n].pc = "closed" /\ job' = SetJob(p, n, Ended(c))
      /\ UNCHANGED <<present, blocks, hurt>>
      BY <1>1 DEF Inv, ScriptCheck, disk, history
<1>3. FilesOK' /\ Only(p, n) /\ job'[p][n].pc = c
      BY <1>2, BuiltNames, EndOnly
<1>4. ASSUME n \notin mixed'
      PROVE  Holds(p, n)
      <2>1. Good(p, n)'
            BY <1>1, <1>3 DEF Good
      <2>2. \A q \in Proc : Good(q, n)'
            BY <1>2, <1>3, <1>4, <2>1, BuiltNames, OnlyWorker DEF AtWork
      <2>3. blocks[n] = Block
            BY <1>2, <1>4, BuiltNames, NotMixed DEF Good
      <2>4. Found(n)'
            BY <1>2, <2>3, BuiltNames DEF Found
      <2>5. n \in present
            BY <1>2, <2>3, BuiltNames, ProvisionAssumption DEF FilesOK
      <2>6. There(n)'
            BY <1>2, <2>3, <2>5, ProvisionAssumption DEF There
      <2>7. Whole(n) => Whole(n)'
            BY <1>2 DEF Whole
      <2> QED BY <2>2, <2>4, <2>6, <2>7 DEF Holds
<1> QED BY <1>2, <1>3, <1>4 DEF Works

\* What is there stays there when a block is added.
LEMMA WriteWorks ==
    ASSUME Inv, Mixes, NEW p \in Proc, NEW n \in Final, Write(p, n)
    PROVE  FilesOK' /\ Works(p, n)
<1>1. PICK i, b : i = job[p][n] /\ b = CHOOSE x \in i.todo : \A y \in i.todo : x <= y
      OBVIOUS
<1>2. PICK j : j = IF i.todo = {b} THEN Exited(p, "closed") ELSE [i EXCEPT !.todo = i.todo \ {b}]
      OBVIOUS
<1>3. FilesOK /\ i \in Job /\ i.fd \in {n, Target(n), "none"} /\ i.fd \in Path \cup {"none"}
      BY <1>1, OpenIsPath DEF Inv
<1>4. /\ i.pc = "writing" /\ job' = SetJob(p, n, j) /\ present' = present /\ UNCHANGED hurt
      /\ blocks' = IF i.fd = "none" THEN blocks ELSE [blocks EXCEPT ![i.fd] = blocks[i.fd] \cup {b}]
      BY <1>1, <1>2 DEF Write, history
<1>5. /\ j \in Job /\ j.fd \in {i.fd, "none"}
      /\ \/ i.todo = {b} /\ j.pc \in {"idle", "closed"}
         \/ i.todo # {b} /\ j.pc = "writing" /\ j.fd = i.fd /\ j.todo = i.todo \ {b}
      <2>1. CASE i.todo = {b}
            <3>1. j = Exited(p, "closed") /\ "closed" \in JobPc
                  BY <1>2, <2>1 DEF JobPc, AtWork
            <3> QED BY <2>1, <3>1, ExitedIsAJob
      <2>2. CASE i.todo # {b}
            <3>1. j = [i EXCEPT !.todo = i.todo \ {b}]
                  BY <1>2, <2>2
            <3> QED BY <1>3, <1>4, <2>2, <3>1 DEF Job
      <2> QED BY <2>1, <2>2
<1>6. i.todo # {} => b \in i.todo
      BY <1>1, <1>3, NextBlock DEF Job
<1>7. b \in Block /\ b \in i.todo
      <2>1. i.todo # {}
            BY <1>1 DEF Write
      <2> QED BY <1>3, <1>6, <2>1 DEF Job
<1>8. PICK B \in SUBSET Block : i.fd # "none" => B = blocks[i.fd] \cup {b}
      BY <1>3, <1>7 DEF FilesOK
<1>9. Writes(p, n, j, B)
      BY <1>1, <1>4, <1>5, <1>8 DEF Writes
<1>10. /\ FilesOK' /\ Only(p, n) /\ job'[p][n] = j
       /\ \A g \in Path : blocks'[g] = IF g = i.fd THEN B ELSE blocks[g]
      BY <1>1, <1>3, <1>5, <1>9, WriteOnly
<1>11. /\ blocks[n] \subseteq blocks'[n] /\ blocks[n] \subseteq Block /\ blocks'[n] \subseteq Block
       /\ n \in Path
      BY <1>3, <1>8, <1>10, Names DEF FilesOK
<1>12. (There(n) => There(n)') /\ (Whole(n) => Whole(n)')
      BY <1>4, <1>11 DEF There, Whole
<1>13. ASSUME n \notin mixed'
       PROVE  Holds(p, n)
      <2>1. n \notin mixed /\ Found(n) /\ Good(p, n)
            BY <1>13, NotMixed
      <2>2. CASE n = "engine"
            <3>1. Good(p, n)'
                  BY <2>2, <1>5, <1>10 DEF Good
            <3>2. \A q \in Proc : Good(q, n)'
                  BY <1>1, <1>4, <1>10, <1>13, <3>1, OnlyWorker DEF AtWork
            <3>3. Found(n)'
                  BY <2>2, EngineNames DEF Found
            <3> QED BY <2>2, <1>12, <3>2, <3>3, EngineNames DEF Holds
      <2>3. CASE n # "engine"
            <3>1. i.fd = Target(n) /\ blocks[Target(n)] \cup i.todo = Block
                  BY <1>1, <1>4, <2>1, <2>3 DEF Good
            <3>2. blocks'[Target(n)] = blocks[Target(n)] \cup {b} /\ Target(n) # "none"
                  BY <1>8, <1>10, <3>1, Names, Targets
            <3>3. /\ i.todo = {b} => blocks'[Target(n)] = Block
                  /\ i.todo # {b} => blocks'[Target(n)] \cup j.todo = Block
                  BY <1>5, <1>7, <3>1, <3>2
            <3>4. Good(p, n)'
                  BY <1>5, <1>10, <3>1, <3>3 DEF Good
            <3>5. \A q \in Proc : Good(q, n)'
                  BY <1>1, <1>4, <1>10, <1>13, <3>4, OnlyWorker DEF AtWork
            <3>6. Found(n)'
                  <4>1. CASE n \in Download
                        <5>1. blocks'[n] = blocks[n]
                              BY <4>1, <1>10, <3>1, DownloadNames
                        <5> QED BY <4>1, <5>1, <1>4, <2>1, DownloadNames DEF Found
                  <4>2. CASE n \in Built
                        <5>1. blocks'[n] = Block \/ Writing(n)'
                              BY <4>2, <1>5, <1>10, <3>3, BuiltNames DEF Writing
                        <5> QED BY <4>2, <5>1, BuiltNames DEF Found
                  <4> QED BY <4>1, <4>2, <2>3, Names
            <3>7. job'[p][n].pc # "ok"
                  BY <1>5, <1>10
            <3> QED BY <1>12, <3>5, <3>6, <3>7 DEF Holds
      <2> QED BY <2>2, <2>3
<1> QED BY <1>4, <1>10, <1>13 DEF Works

\* The engine.
LEMMA EngineStays ==
    ASSUME Inv, Mixes, NEW p \in Proc, NEW j \in Job, j.fd = "none",
           job' = SetJob(p, "engine", j), UNCHANGED <<present, blocks>>,
           \A k \in Final \ {"engine"} : k \in hurt' <=> k \in hurt,
           j.pc \in {"fetch", "compile"} =>
             "engine" \notin present \/ job[p]["engine"].pc \in {"fetch", "compile"}
    PROVE  FilesOK' /\ Works(p, "engine")
<1>1. FilesOK
      BY DEF Inv
<1>2. /\ FilesOK' /\ Only(p, "engine") /\ job'[p]["engine"] = j
      /\ \A q \in Proc \ {p} : job'[q]["engine"] = job[q]["engine"]
      BY <1>1, EngineNames, SetJobOnly
<1>3. ASSUME "engine" \notin mixed'
      PROVE  Holds(p, "engine")
      <2>1. "engine" \notin mixed /\ Good(p, "engine")
            BY <1>3, EngineNames, NotMixed
      <2>2. Good(p, "engine")'
            BY <1>2, <2>1 DEF Good
      <2>3. \A q \in Proc \ {p} : Good(q, "engine")'
            BY <1>2, <2>1, EngineNames, OthersStay
      <2>4. Found("engine")'
            BY EngineNames DEF Found
      <2>5. Whole("engine") => Whole("engine")'
            BY DEF Whole
      <2> QED BY <2>2, <2>3, <2>4, <2>5, EngineNames DEF Holds
<1> QED BY <1>2, <1>3 DEF Works

LEMMA EngineEnds ==
    ASSUME Inv, Mixes, NEW p \in Proc, NEW c \in JobPc,
           job' = SetJob(p, "engine", Ended(c)) \/ job' = SetJob(p, "engine", Exited(p, c))
                  \/ (job' = SetJob(p, "engine", NoJob) /\ c = "idle"),
           UNCHANGED <<present, blocks>>, \A k \in Final \ {"engine"} : k \in hurt' <=> k \in hurt,
           c \in {"fetch", "compile"} =>
             "engine" \notin present \/ job[p]["engine"].pc \in {"fetch", "compile"}
    PROVE  FilesOK' /\ Works(p, "engine")
<1>1. PICK j : /\ j \in Job /\ j.fd = "none" /\ j.pc \in {c, "idle"}
               /\ job' = SetJob(p, "engine", j)
      BY EndedIsAJob, ExitedIsAJob, NoJobIsAJob
<1>2. j.pc \in {"fetch", "compile"} =>
        "engine" \notin present \/ job[p]["engine"].pc \in {"fetch", "compile"}
      BY <1>1
<1> QED BY <1>1, <1>2, EngineStays

\* What the actions on the engine that write no file do to its job.
LEMMA EngineWorks ==
    ASSUME Inv, Mixes, NEW p \in Proc,
           \/ EngineAsk(p) \/ EngineNotFetched(p) \/ EngineMissing(p) \/ CompileLosesWrite(p)
           \/ CompileUpload(p) \/ NativeFails(p) \/ (CompileOpen(p) /\ ~Whole("model"))
    PROVE  FilesOK' /\ Works(p, "engine")
<1> USE DEF disk, history, JobPc, AtWork
<1>1. CASE EngineAsk(p)
      BY <1>1, EngineEnds DEF EngineAsk
<1>2. CASE EngineNotFetched(p)
      BY <1>2, EngineEnds DEF EngineNotFetched
<1>3. CASE EngineMissing(p)
      BY <1>3, EngineEnds DEF EngineMissing
<1>4. CASE CompileLosesWrite(p)
      BY <1>4, EngineEnds DEF CompileLosesWrite
<1>5. CASE CompileUpload(p)
      BY <1>5, EngineEnds DEF CompileUpload
<1>6. CASE NativeFails(p)
      BY <1>6, EngineEnds DEF NativeFails
<1>7. CASE CompileOpen(p) /\ ~Whole("model")
      BY <1>7, EngineEnds DEF CompileOpen
<1> QED BY <1>1, <1>2, <1>3, <1>4, <1>5, <1>6, <1>7

LEMMA CompileOpenWorks ==
    ASSUME Inv, Mixes, NEW p \in Proc, CompileOpen(p), Whole("model")
    PROVE  FilesOK' /\ Works(p, "engine")
<1>1. /\ FilesOK /\ job[p]["engine"].pc = "compile" /\ Open(p, "engine", Target("engine"))
      /\ hurt' = hurt \ {"engine"}
      BY EngineNames DEF Inv, CompileOpen, Open
<1>2. FilesOK' /\ Only(p, "engine") /\ job'[p]["engine"].pc = "writing"
      BY <1>1, EngineNames, OpenOnly
<1>3. ASSUME "engine" \notin mixed'
      PROVE  Holds(p, "engine")
      <2>1. "engine" \notin present
            BY <1>1, <1>3, EngineNames, NotMixed DEF Good
      <2>2. Good(p, "engine")'
            BY <1>2 DEF Good
      <2>3. \A q \in Proc : Good(q, "engine")'
            BY <1>1, <1>2, <1>3, <2>2, EngineNames, OnlyWorker DEF AtWork
      <2>4. Found("engine")'
            BY EngineNames DEF Found
      <2> QED BY <2>1, <2>3, <2>4, EngineNames DEF Holds, Whole
<1> QED BY <1>1, <1>2, <1>3 DEF Works

LEMMA EngineFetchedWorks ==
    ASSUME Inv, Mixes, NEW p \in Proc, EngineFetched(p)
    PROVE  /\ FilesOK' /\ Works(p, "engine") /\ job'[p]["engine"].pc \in {"idle", "ok"}
           /\ \A q \in Proc \ {p} :
                /\ job'[q]["engine"].todo = job[q]["engine"].todo
                /\ job'[q]["engine"].fd = "none"
           /\ blocks'["engine"] = remote
<1> DEFINE jobs == SetJob(p, "engine", Exited(p, "ok"))
<1>1. /\ job[p]["engine"].pc = "fetch" /\ FilesOK /\ UNCHANGED hurt
      /\ present' = present \cup {"engine"} /\ blocks' = [blocks EXCEPT !["engine"] = remote]
      /\ job' = Retarget(jobs, "engine", "none")
      BY DEF EngineFetched, Inv, history
<1>2. remote \in SUBSET Block
      BY DEF EngineFetched, Inv, RestOK
<1>3. /\ jobs \in [Proc -> [Final -> Job]]
      /\ jobs[p]["engine"].pc \in {"idle", "ok"} /\ jobs[p]["engine"].fd = "none"
      /\ \A r \in Proc, k \in Final : r # p \/ k # "engine" => jobs[r][k] = job[r][k]
      <2>1. PICK e : e = Exited(p, "ok")
            OBVIOUS
      <2>2. e \in Job /\ e.pc \in {"idle", "ok"} /\ e.fd = "none"
            BY <2>1, ExitedIsAJob DEF JobPc
      <2>3. /\ jobs \in [Proc -> [Final -> Job]] /\ jobs[p]["engine"] = e
            /\ \A r \in Proc, k \in Final : r # p \/ k # "engine" => jobs[r][k] = job[r][k]
            BY <1>1, <2>1, <2>2, EngineNames, SetJobType
      <2> HIDE DEF jobs
      <2> QED BY <2>2, <2>3
<1> HIDE DEF jobs
<1>4. /\ job' \in [Proc -> [Final -> Job]]
      /\ \A r \in Proc, k \in Final :
           /\ job'[r][k].pc = jobs[r][k].pc /\ job'[r][k].todo = jobs[r][k].todo
           /\ job'[r][k].fd = Moved(jobs[r][k].fd, "engine", "none")
      BY <1>1, <1>3, RetargetType
<1>5. ASSUME NEW k \in Final \ {"engine"}
      PROVE  Same(k)
      <2>1. "engine" # k /\ "engine" # Target(k) /\ k \in Path /\ Target(k) \in Path
            BY EngineNames, OtherFiles
      <2>2. ASSUME NEW q \in Proc
            PROVE  job'[q][k].fd = job[q][k].fd
            <3>1. job[q][k].fd # "engine"
                  BY <1>1, <2>1, OpenIsPath
            <3>2. k \in Final /\ k # "engine"
                  OBVIOUS
            <3>3. job'[q][k].fd = Moved(job[q][k].fd, "engine", "none")
                  BY <3>2, <1>3, <1>4
            <3> QED BY <3>1, <3>3 DEF Moved
      <2>3. \A f \in {k, Target(k)} : (f \in present' <=> f \in present) /\ blocks'[f] = blocks[f]
            BY <1>1, <2>1 DEF FilesOK
      <2> QED BY <2>2, <2>3, <1>3, <1>4 DEF Same
<1>6. \A q \in Proc : job'[q]["engine"].fd = "none"
      <2>1. ASSUME NEW q \in Proc
            PROVE  job'[q]["engine"].fd = "none"
            <3>1. jobs[q]["engine"].fd \in {"engine", "none"}
                  BY <1>1, <1>3, EngineNames, OpenIsPath
            <3>2. job'[q]["engine"].fd = Moved(jobs[q]["engine"].fd, "engine", "none")
                  BY <1>4, EngineNames
            <3> QED BY <3>1, <3>2 DEF Moved
      <2> QED BY <2>1
<1>7. \A r \in Proc, k \in Final : job'[r][k].fd \in (present' \cap {k, Target(k)}) \cup {"none"}
      <2>1. ASSUME NEW r \in Proc, NEW k \in Final \ {"engine"}
            PROVE  job'[r][k].fd \in (present' \cap {k, Target(k)}) \cup {"none"}
            <3>1. job[r][k].fd \in (present \cap {k, Target(k)}) \cup {"none"}
                  BY <1>1 DEF FilesOK
            <3> QED BY <3>1, <1>1, <1>5 DEF Same
      <2> QED BY <2>1, <1>6
<1>8. /\ present' \subseteq Path /\ blocks' \in [Path -> SUBSET Block]
      /\ \A g \in Path \ present' : blocks'[g] = {}
      /\ blocks'["engine"] = remote
      BY <1>1, <1>2, EngineNames DEF FilesOK
<1>9. FilesOK'
      BY <1>4, <1>7, <1>8 DEF FilesOK, Target
<1>10. Only(p, "engine") /\ job'[p]["engine"].pc \in {"idle", "ok"}
      BY <1>3, <1>4, <1>5, EngineNames DEF Only
<1>11. ASSUME "engine" \notin mixed'
       PROVE  Holds(p, "engine")
      <2>1. "engine" \notin present
            BY <1>1, <1>11, EngineNames, NotMixed DEF Good
      <2>2. Good(p, "engine")'
            BY <1>10 DEF Good
      <2>3. \A q \in Proc : Good(q, "engine")'
            BY <1>1, <1>10, <1>11, <2>2, EngineNames, OnlyWorker DEF AtWork
      <2>4. Found("engine")'
            BY EngineNames DEF Found
      <2> QED BY <2>1, <2>3, <2>4, EngineNames DEF Holds, Whole
<1>12. Works(p, "engine")
      BY <1>1, <1>10, <1>11 DEF Works
<1>13. \A q \in Proc \ {p} : job'[q]["engine"].todo = job[q]["engine"].todo
      BY <1>3, <1>4, EngineNames
<1> QED BY <1>6, <1>8, <1>9, <1>10, <1>12, <1>13


-----------------------------------------------------------------------------
(* From one file to the invariant. *)

\* No call begins to rely on anything.
NoneLater == \A q \in Proc, k \in Needed : proc'[q] \in Late(k) => proc[q] \in Late(k)

\* What a step keeps, apart from what Mixes says.
Advances ==
    /\ FilesOK' /\ RestOK' /\ \A q \in Proc : Own(q)'
    /\ \A k \in Final \ mixed' : Sound(k)' /\ (k \in Kept /\ Whole(k) => Whole(k)')

\* A file that the step leaves alone stays sound.
LEMMA SameSound ==
    ASSUME Inv, Mixes, NEW k \in Final, k \notin mixed', Same(k), k \in hurt' <=> k \in hurt
    PROVE  /\ \A q \in Proc : Good(q, k)'
           /\ Found(k)' /\ (There(k) => There(k)') /\ (Whole(k) => Whole(k)')
<1>1. Found(k) /\ \A q \in Proc : Good(q, k)
      BY NotMixed
<1>2. /\ \A q \in Proc : job'[q][k].pc = job[q][k].pc /\ job'[q][k].fd = job[q][k].fd
                         /\ job'[q][k].todo = job[q][k].todo
      /\ (k \in present' <=> k \in present) /\ blocks'[k] = blocks[k]
      /\ blocks'[Target(k)] = blocks[Target(k)]
      BY DEF Same
<1>3. \A q \in Proc : Good(q, k)'
      BY <1>1, <1>2 DEF Good
<1>4. Writing(k)' <=> Writing(k)
      BY <1>2 DEF Writing
<1>5. Found(k)'
      BY <1>1, <1>2, <1>4 DEF Found
<1> QED BY <1>2, <1>3, <1>5 DEF There, Whole

LEMMA WorksSound ==
    ASSUME Inv, Mixes, NEW p \in Proc, NEW n \in Final, Works(p, n), NoneLater
    PROVE  \A k \in Final \ mixed' : Sound(k)' /\ (k \in Kept /\ Whole(k) => Whole(k)')
<1> TAKE k \in Final \ mixed'
<1>1. k \in Final /\ k \notin mixed'
      OBVIOUS
<1>2. Seen(k)
      BY <1>1, NotMixed
<1>3. \A q \in Proc : proc'[q] \in Late(k) => proc[q] \in Late(k) \/ k \notin Needed
      BY DEF NoneLater
<1>4. CASE k = n
      <2>1. Holds(p, n) /\ Only(p, n)
            BY <1>1, <1>4 DEF Works
      <2>2. \A q \in Proc : job'[q][n].pc = "ok" => job[q][n].pc = "ok" \/ There(n)' \/ n \notin Needed
            BY <2>1 DEF Holds, Only
      <2>3. Seen(n)'
            BY <1>2, <1>3, <1>4, <2>1, <2>2 DEF Seen, Holds
      <2> QED BY <1>4, <2>1, <2>3 DEF Holds, Sound
<1>5. CASE k # n
      <2>1. Same(k) /\ (k \in hurt' <=> k \in hurt)
            BY <1>1, <1>5 DEF Works, Only
      <2>2. /\ \A q \in Proc : Good(q, k)'
            /\ Found(k)' /\ (There(k) => There(k)') /\ (Whole(k) => Whole(k)')
            BY <1>1, <2>1, SameSound
      <2>3. Seen(k)'
            BY <1>2, <1>3, <2>1, <2>2 DEF Seen, Same
      <2> QED BY <2>2, <2>3 DEF Sound
<1> QED BY <1>4, <1>5

\* The rest of the types.
LEMMA RestStays ==
    ASSUME Inv, Mixes, NEW p \in Proc, NEW pc \in ProcPc,
           proc' \in {proc, [proc EXCEPT ![p] = pc]}, remote' \in {remote, blocks["engine"]},
           Fault \/ UNCHANGED faults, hurt' \subseteq Final, lost' \in BOOLEAN
    PROVE  RestOK'
<1>1. RestOK /\ blocks["engine"] \subseteq Block
      BY EngineNames DEF Inv, FilesOK
<1>2. proc' \in [Proc -> ProcPc]
      BY <1>1 DEF RestOK
<1>3. faults' \in 0..MaxFaults
      BY <1>1, ProvisionAssumption DEF RestOK, Fault
<1>4. mixed' \subseteq Final
      BY <1>1 DEF RestOK, Mixes, Clashing
<1>5. remote' \in {NoObject} \cup SUBSET Block
      BY <1>1 DEF RestOK
<1> QED BY <1>2, <1>3, <1>4, <1>5 DEF RestOK

\* Where a call is, after a step on a downloaded or built file.
LEMMA OwnStays ==
    ASSUME Inv, NEW p \in Proc, NEW n \in Final \ {"engine"}, Only(p, n), UNCHANGED proc,
           n \in Built => job[p][n].pc # "idle"
    PROVE  \A q \in Proc : Own(q)'
<1> TAKE q \in Proc
<1>1. Own(q)
      BY DEF Inv
<1>2. n \in Final /\ "engine" \in Final /\ Built \subseteq Final
      BY Names
<1>3. job'[q]["engine"].pc = job[q]["engine"].pc
      BY <1>2 DEF Only, Same
<1>4. ASSUME proc[q] = "download", NEW k \in Built
      PROVE  job'[q][k].pc = "idle"
      <2>1. job[q][k].pc = "idle" /\ k \in Final
            BY <1>1, <1>2, <1>4 DEF Own
      <2>2. k # n \/ q # p
            BY <2>1
      <2> QED BY <2>1, <2>2 DEF Only, Same
<1> QED BY <1>1, <1>3, <1>4 DEF Own

\* ... and after a step on the engine.
LEMMA OwnEngine ==
    ASSUME Inv, NEW p \in Proc, Only(p, "engine"), NEW pc \in ProcPc \ {"download"},
           proc' = [proc EXCEPT ![p] = pc],
           job'[p]["engine"].pc = "fetch" => pc \in {"engine", "off"},
           job'[p]["engine"].pc \in {"compile", "writing", "closed"} => pc = "compile"
    PROVE  \A q \in Proc : Own(q)'
<1>1. proc \in [Proc -> ProcPc]
      BY DEF Inv, RestOK
<1>2. proc'[p] = pc /\ pc # "download" /\ \A q \in Proc \ {p} : proc'[q] = proc[q]
      BY <1>1
<1>3. Own(p)'
      BY <1>2 DEF Own
<1>4. ASSUME NEW q \in Proc \ {p}
      PROVE  Own(q)'
      <2>1. Own(q)
            BY DEF Inv
      <2>2. \A k \in Final : job'[q][k].pc = job[q][k].pc
            BY DEF Only, Same
      <2> QED BY <1>2, <2>1, <2>2, Names DEF Own
<1> QED BY <1>3, <1>4

\* A step on a downloaded or a built file.
LEMMA FileAdvances ==
    ASSUME Inv, Mixes, NEW p \in Proc, NEW n \in Final \ {"engine"}, Works(p, n), FilesOK',
           UNCHANGED <<remote, proc>>, Fault \/ UNCHANGED faults, hurt' \subseteq Final,
           lost' \in BOOLEAN, n \in Built => job[p][n].pc # "idle"
    PROVE  Advances
<1>1. NoneLater
      BY DEF NoneLater
<1>2. \A k \in Final \ mixed' : Sound(k)' /\ (k \in Kept /\ Whole(k) => Whole(k)')
      BY <1>1, WorksSound
<1>3. "off" \in ProcPc
      BY DEF ProcPc
<1>4. RestOK'
      BY <1>3, RestStays
<1>5. \A q \in Proc : Own(q)'
      BY OwnStays DEF Works
<1> QED BY <1>2, <1>4, <1>5 DEF Advances

\* A step on the engine, with which its call goes on to pc.
LEMMA EngineAdvances ==
    ASSUME Inv, Mixes, NEW p \in Proc, Works(p, "engine"), FilesOK',
           NEW pc \in ProcPc \ {"download", "build", "clean", "load", "up"},
           proc' = [proc EXCEPT ![p] = pc], pc \in Serving => proc[p] \in Serving,
           remote' \in {remote, blocks["engine"]}, Fault \/ UNCHANGED faults,
           hurt' \subseteq Final, lost' \in BOOLEAN,
           job'[p]["engine"].pc = "fetch" => pc \in {"engine", "off"},
           job'[p]["engine"].pc \in {"compile", "writing", "closed"} => pc = "compile"
    PROVE  Advances
<1>1. proc \in [Proc -> ProcPc] /\ pc \in ProcPc \ {"download"}
      BY DEF Inv, RestOK
<1>2. NoneLater
      BY <1>1 DEF NoneLater, Late
<1>3. \A k \in Final \ mixed' : Sound(k)' /\ (k \in Kept /\ Whole(k) => Whole(k)')
      BY <1>2, EngineNames, WorksSound
<1>4. RestOK'
      BY <1>1, RestStays
<1>5. \A q \in Proc : Own(q)'
      BY <1>1, OwnEngine DEF Works
<1> QED BY <1>3, <1>4, <1>5 DEF Advances

\* The steps of the downloads, of the scripts and of the engine, one by one.
LEMMA DownloadAdvances ==
    ASSUME Inv, Mixes, NEW p \in Proc, NEW n \in Download,
           \/ DownloadCheck(p, n) \/ DownloadOpen(p, n) \/ DownloadRetry(p, n)
           \/ DownloadFails(p, n) \/ DownloadSize(p, n) \/ DownloadRename(p, n)
    PROVE  Advances
<1>1. FilesOK' /\ Works(p, n)
      BY DownloadCheckWorks, DownloadOpenWorks, DownloadRetryWorks, DownloadFailsWorks,
         DownloadSizeWorks, DownloadRenameWorks
<1>2. n \in Final \ {"engine"} /\ n \notin Built /\ hurt \subseteq Final /\ lost \in BOOLEAN
      BY DownloadNames DEF Inv, RestOK
<1>3. /\ UNCHANGED <<remote, proc>> /\ (Fault \/ UNCHANGED faults)
      /\ hurt' \subseteq Final /\ lost' \in BOOLEAN
      BY <1>2 DEF DownloadCheck, DownloadOpen, Open, DownloadRetry, DownloadFails, DownloadSize,
                  DownloadRename, history
<1> QED BY <1>1, <1>2, <1>3, FileAdvances

LEMMA ScriptAdvances ==
    ASSUME Inv, Mixes, NEW p \in Proc, NEW n \in Built,
           \/ ScriptOpen(p, n) \/ ScriptFails(p, n) \/ ScriptCheck(p, n)
           \/ (VocabCheck(p) /\ n = "vocab")
    PROVE  Advances
<1>1. FilesOK' /\ Works(p, n)
      BY ScriptOpenWorks, ScriptFailsWorks, ScriptCheckWorks, VocabCheckWorks
<1>2. n \in Final \ {"engine"} /\ hurt \subseteq Final /\ lost \in BOOLEAN
      BY BuiltNames DEF Inv, RestOK
<1>3. /\ UNCHANGED <<remote, proc>> /\ (Fault \/ UNCHANGED faults)
      /\ hurt' \subseteq Final /\ lost' \in BOOLEAN /\ job[p][n].pc # "idle"
      BY <1>2 DEF ScriptOpen, Open, ScriptFails, ScriptCheck, VocabCheck, disk, history
<1> QED BY <1>1, <1>2, <1>3, FileAdvances

LEMMA WriteAdvances ==
    ASSUME Inv, Mixes, NEW p \in Proc, NEW n \in Final, Write(p, n)
    PROVE  Advances
<1>1. FilesOK' /\ Works(p, n)
      BY WriteWorks
<1>2. /\ UNCHANGED <<remote, proc, faults>> /\ hurt' \subseteq Final /\ lost' \in BOOLEAN
      /\ job[p][n].pc = "writing" /\ proc \in [Proc -> ProcPc] /\ FilesOK
      BY DEF Write, Inv, RestOK, history
<1>3. CASE n # "engine"
      BY <1>1, <1>2, <1>3, FileAdvances
<1>4. CASE n = "engine"
      <2>1. proc[p] = "compile" /\ ~Orphan(p)
            BY <1>2, <1>4 DEF Inv, Own, Orphan
      <2>2. proc' = [proc EXCEPT ![p] = "compile"] /\ "compile" \in Serving
            BY <1>2, <2>1 DEF Serving
      <2>3. job'[p]["engine"].pc \in {"writing", "closed"}
            <3>1. PICK i, b : i = job[p][n] /\ b = CHOOSE x \in i.todo : \A y \in i.todo : x <= y
                  OBVIOUS
            <3>2. PICK j : j = IF i.todo = {b} THEN Exited(p, "closed")
                               ELSE [i EXCEPT !.todo = i.todo \ {b}]
                  OBVIOUS
            <3>3. i \in Job /\ i.pc = "writing" /\ job' = SetJob(p, n, j)
                  BY <1>2, <3>1, <3>2, OpenIsPath DEF Write
            <3>4. j \in Job /\ j.pc \in {"writing", "closed"}
                  <4>1. CASE i.todo = {b}
                        <5>1. "closed" \in JobPc /\ j = Exited(p, "closed")
                              BY <3>2, <4>1 DEF JobPc, AtWork
                        <5> QED BY <2>1, <5>1, ExitedIsAJob
                  <4>2. CASE i.todo # {b}
                        BY <3>2, <3>3, <4>2 DEF Job
                  <4> QED BY <4>1, <4>2
            <3> QED BY <1>2, <1>4, <3>3, <3>4, SetJobType
      <2>4. "compile" \in ProcPc \ {"download", "build", "clean", "load", "up"}
            BY DEF ProcPc
      <2> QED BY <1>1, <1>2, <1>4, <2>1, <2>2, <2>3, <2>4, EngineAdvances
<1> QED BY <1>3, <1>4

\* What an engine action does to the job, beside what EngineWorks says.
LEMMA EngineJob ==
    ASSUME Inv, NEW p \in Proc, NEW c \in JobPc,
           job' = SetJob(p, "engine", Ended(c)) \/ job' = SetJob(p, "engine", Exited(p, c))
                  \/ (job' = SetJob(p, "engine", NoJob) /\ c = "idle")
    PROVE  job'[p]["engine"].pc \in {c, "idle"}
<1>1. PICK j : j \in Job /\ j.pc \in {c, "idle"} /\ job' = SetJob(p, "engine", j)
      BY EndedIsAJob, ExitedIsAJob, NoJobIsAJob
<1>2. job'[p]["engine"] = j
      BY <1>1, EngineNames, SetJobType DEF Inv
<1> QED BY <1>1, <1>2

LEMMA EngineStepAdvances ==
    ASSUME Inv, Mixes, NEW p \in Proc,
           \/ EngineAsk(p) \/ EngineFetched(p) \/ EngineNotFetched(p) \/ EngineMissing(p)
           \/ CompileOpen(p) \/ CompileLosesWrite(p) \/ CompileUpload(p) \/ NativeFails(p)
    PROVE  Advances
<1> DEFINE Goal(pc) ==
      /\ pc \in ProcPc \ {"download", "build", "clean", "load", "up"}
      /\ proc' = [proc EXCEPT ![p] = pc] /\ (pc \in Serving => proc[p] \in Serving)
      /\ remote' \in {remote, blocks["engine"]} /\ (Fault \/ UNCHANGED faults)
      /\ hurt' \subseteq Final /\ lost' \in BOOLEAN
      /\ job'[p]["engine"].pc = "fetch" => pc \in {"engine", "off"}
      /\ job'[p]["engine"].pc \in {"compile", "writing", "closed"} => pc = "compile"
<1>1. /\ proc \in [Proc -> ProcPc] /\ hurt \subseteq Final /\ lost \in BOOLEAN
      /\ "engine" \in Final /\ Own(p) /\ FilesOK
      BY EngineNames DEF Inv, RestOK
<1>2. FilesOK' /\ Works(p, "engine")
      BY EngineWorks, CompileOpenWorks, EngineFetchedWorks
<1>3. \E pc \in ProcPc : Goal(pc)
      <2>1. CASE EngineAsk(p)
            <3>1. job'[p]["engine"].pc \in {"fetch", "idle"}
                  BY <2>1, EngineJob DEF EngineAsk, JobPc, AtWork
            <3>2. Goal("engine") /\ "engine" \in ProcPc
                  BY <1>1, <2>1, <3>1 DEF EngineAsk, ProcPc, Serving, disk, history
            <3> QED BY <3>2
      <2>2. CASE EngineFetched(p)
            <3>1. job'[p]["engine"].pc \in {"idle", "ok"} /\ proc[p] \in {"engine", "off"}
                  BY <1>1, <2>2, EngineFetchedWorks DEF EngineFetched, Own
            <3>2. Goal(IF Orphan(p) THEN "off" ELSE "session")
                  BY <1>1, <2>2, <3>1 DEF EngineFetched, ProcPc, Serving, history, Orphan
            <3> HIDE DEF Goal
            <3> QED BY <3>2 DEF ProcPc
      <2>3. CASE EngineNotFetched(p)
            <3>1. /\ job'[p]["engine"].pc \in {"compile", "idle"} /\ proc[p] \in {"engine", "off"}
                  /\ Orphan(p) => job'[p]["engine"].pc = "idle"
                  <4>1. PICK e : e = Exited(p, "compile")
                        OBVIOUS
                  <4>2. e \in Job /\ e.pc = IF Orphan(p) THEN "idle" ELSE "compile"
                        BY <4>1, ExitedIsAJob DEF JobPc, AtWork
                  <4>3. job'[p]["engine"] = e
                        BY <1>1, <2>3, <4>1, <4>2, SetJobType DEF EngineNotFetched
                  <4> QED BY <1>1, <2>3, <4>2, <4>3 DEF EngineNotFetched, Own
            <3>2. Goal(IF Orphan(p) THEN "off" ELSE "compile")
                  BY <1>1, <2>3, <3>1 DEF EngineNotFetched, ProcPc, Serving, disk, history, Orphan
            <3> HIDE DEF Goal
            <3> QED BY <3>2 DEF ProcPc
      <2>4. CASE EngineMissing(p)
            <3>1. job'[p]["engine"].pc \in {"compile", "idle"}
                  BY <2>4, EngineJob DEF EngineMissing, JobPc, AtWork
            <3>2. Goal("compile") /\ "compile" \in ProcPc
                  BY <1>1, <2>4, <3>1 DEF EngineMissing, Goes, ProcPc, Serving, disk, history
            <3> QED BY <3>2
      <2>5. CASE CompileOpen(p) /\ Whole("model")
            <3>1. proc[p] = "compile"
                  BY <1>1, <2>5 DEF CompileOpen, Own
            <3>2. job'[p]["engine"].pc \in {"writing"}
                  BY <1>1, <2>5, EngineNames, OpenOnly DEF CompileOpen
            <3>3. Goal("compile") /\ "compile" \in ProcPc
                  BY <1>1, <2>5, <3>1, <3>2 DEF CompileOpen, Open, ProcPc, Serving
            <3> QED BY <3>3
      <2>6. CASE CompileOpen(p) /\ ~Whole("model")
            <3>1. job'[p]["engine"].pc \in {"idle"}
                  BY <2>6, EngineJob DEF CompileOpen, JobPc, AtWork
            <3>2. Goal("failed") /\ "failed" \in ProcPc
                  BY <1>1, <2>6, <3>1 DEF CompileOpen, Goes, ProcPc, Serving, disk, history
            <3> QED BY <3>2
      <2>7. CASE CompileLosesWrite(p)
            <3>1. proc[p] = "compile"
                  BY <1>1, <2>7 DEF CompileLosesWrite, Own
            <3>2. job'[p]["engine"].pc \in {"closed", "idle"}
                  BY <2>7, EngineJob DEF CompileLosesWrite, JobPc, AtWork
            <3>3. Goal("compile") /\ "compile" \in ProcPc
                  BY <1>1, <2>7, <3>1, <3>2 DEF CompileLosesWrite, ProcPc, Serving, disk
            <3> QED BY <3>3
      <2>8. CASE CompileUpload(p)
            <3>1. job'[p]["engine"].pc \in {"ok", "idle"}
                  BY <2>8, EngineJob DEF CompileUpload, JobPc, AtWork
            <3>2. Goal("session") /\ "session" \in ProcPc
                  BY <1>1, <2>8, <3>1 DEF CompileUpload, Goes, ProcPc, Serving, history
            <3> QED BY <3>2
      <2>9. CASE NativeFails(p)
            <3>1. job'[p]["engine"].pc \in {"idle"}
                  BY <2>9, EngineJob DEF NativeFails, JobPc, AtWork
            <3>2. Goal("failed") /\ "failed" \in ProcPc
                  BY <1>1, <2>9, <3>1 DEF NativeFails, ProcPc, Serving, disk, history
            <3> QED BY <3>2
      <2> HIDE DEF Goal
      <2> QED BY <2>1, <2>2, <2>3, <2>4, <2>5, <2>6, <2>7, <2>8, <2>9
<1> QED BY <1>2, <1>3, EngineAdvances

-----------------------------------------------------------------------------
(* Steps of the call itself: no file changes, and every job stays as it is *)
(* or is a new one that relies on nothing.                                 *)

\* The jobs of p for the files of N begin, or end, with nothing open.
Resets(p, N) ==
    /\ job' \in [Proc -> [Final -> Job]] /\ UNCHANGED <<present, blocks>>
    /\ \A q \in Proc, k \in Final : q # p \/ k \notin N => job'[q][k] = job[q][k]
    /\ \A k \in N : /\ job'[p][k].fd = "none"
                    /\ job'[p][k].pc \in {"idle", "check"} \/ (k = "model" /\ job'[p][k].pc = "fetch")
                    /\ job[p][k].pc = "writing" => k \in hurt' \/ k \notin Built

\* Whoever begins to rely on file k has seen it.
SeenFirst(k) ==
    \A q \in Proc : proc'[q] \in Late(k) =>
        There(k) \/ proc[q] \in Late(k) \/ job[q][k].pc = "ok"

LEMMA ResetsFiles ==
    ASSUME Inv, NEW p \in Proc, NEW N \in SUBSET Final, Resets(p, N)
    PROVE  FilesOK'
<1>1. FilesOK /\ Resets(p, N)
      BY DEF Inv
<1>2. ASSUME NEW q \in Proc, NEW k \in Final
      PROVE  job'[q][k].fd \in (present' \cap {k, Target(k)}) \cup {"none"}
      <2>1. job'[q][k] = job[q][k] \/ job'[q][k].fd = "none"
            BY <1>1 DEF Resets
      <2>2. job[q][k].fd \in (present \cap {k, Target(k)}) \cup {"none"}
            BY <1>1 DEF FilesOK
      <2>3. UNCHANGED present
            BY <1>1 DEF Resets
      <2> QED BY <2>1, <2>2, <2>3
<1> QED BY <1>1, <1>2 DEF FilesOK, Resets, Target

LEMMA ResetsSound ==
    ASSUME Inv, Mixes, NEW p \in Proc, NEW N \in SUBSET Final, Resets(p, N), hurt \subseteq hurt',
           \A k \in Needed \ mixed' : SeenFirst(k)
    PROVE  \A k \in Final \ mixed' : Sound(k)' /\ (k \in Kept /\ Whole(k) => Whole(k)')
<1> TAKE k \in Final \ mixed'
<1>1. k \in Final /\ k \notin mixed' /\ (k \in Needed => SeenFirst(k))
      OBVIOUS
<1>2. Found(k) /\ Seen(k) /\ \A q \in Proc : Good(q, k)
      BY <1>1, NotMixed
<1>3. \A q \in Proc : \/ job'[q][k] = job[q][k]
                      \/ /\ job'[q][k].pc \in {"idle", "check"} \/ (k = "model" /\ job'[q][k].pc = "fetch")
                         /\ job[q][k].pc = "writing" => k \in hurt' \/ k \notin Built
      BY <1>1 DEF Resets
<1>4. UNCHANGED <<present, blocks>>
      BY DEF Resets
<1>5. \A q \in Proc : Good(q, k)'
      BY <1>2, <1>3, <1>4 DEF Good
<1>6. Writing(k) => Writing(k)' \/ k \in hurt' \/ k \notin Built
      BY <1>3 DEF Writing
<1>7. Found(k)'
      BY <1>2, <1>4, <1>6 DEF Found
<1>8. There(k)' <=> There(k)
      BY <1>4 DEF There
<1>9. \A q \in Proc : job'[q][k].pc = "ok" => job[q][k].pc = "ok"
      BY <1>3
<1>10. Seen(k)'
      BY <1>1, <1>2, <1>8, <1>9 DEF Seen, SeenFirst
<1>11. Whole(k) => Whole(k)'
      BY <1>4 DEF Whole
<1> QED BY <1>5, <1>7, <1>10, <1>11 DEF Sound

\* A call goes on to pc and its jobs stay.
LEMMA GoesAdvances ==
    ASSUME Inv, Mixes, NEW p \in Proc, NEW pc \in ProcPc \ {"download"},
           proc' = [proc EXCEPT ![p] = pc], UNCHANGED <<disk, job, hurt, lost>>,
           Fault \/ UNCHANGED faults,
           job[p]["engine"].pc = "fetch" => pc \in {"engine", "off"},
           job[p]["engine"].pc \in {"compile", "writing", "closed"} => pc = "compile",
           \A k \in Needed \ mixed' : pc \in Late(k) =>
             There(k) \/ proc[p] \in Late(k) \/ job[p][k].pc = "ok"
    PROVE  Advances
<1>1. /\ proc \in [Proc -> ProcPc] /\ hurt \subseteq Final /\ lost \in BOOLEAN
      /\ job \in [Proc -> [Final -> Job]] /\ \A q \in Proc : Own(q)
      BY DEF Inv, RestOK, FilesOK
<1>2. Resets(p, {}) /\ {} \in SUBSET Final
      BY <1>1 DEF Resets, disk
<1>3. proc'[p] = pc /\ \A q \in Proc \ {p} : proc'[q] = proc[q]
      BY <1>1
<1>4. ASSUME NEW k \in Needed \ mixed'
      PROVE  SeenFirst(k)
      BY <1>3 DEF SeenFirst
<1>5. \A k \in Final \ mixed' : Sound(k)' /\ (k \in Kept /\ Whole(k) => Whole(k)')
      BY <1>2, <1>4, ResetsSound
<1>6. RestOK'
      BY <1>1, RestStays DEF disk
<1>7. \A q \in Proc : Own(q)'
      BY <1>1, <1>3 DEF Own
<1>8. FilesOK'
      BY <1>2, ResetsFiles
<1> QED BY <1>5, <1>6, <1>7, <1>8 DEF Advances

LEMMA MainAdvances ==
    ASSUME Inv, Mixes, NEW p \in Proc,
           \/ PythonFails(p) \/ JoinErr(p) \/ LoadFiles(p) \/ EngineFound(p) \/ CreateSession(p)
    PROVE  Advances
<1> DEFINE Goal(pc) ==
      /\ pc \in ProcPc \ {"download"}
      /\ proc' = [proc EXCEPT ![p] = pc] /\ UNCHANGED <<disk, job, hurt, lost>>
      /\ Fault \/ UNCHANGED faults
      /\ job[p]["engine"].pc = "fetch" => pc \in {"engine", "off"}
      /\ job[p]["engine"].pc \in {"compile", "writing", "closed"} => pc = "compile"
      /\ \A k \in Needed \ mixed' : pc \in Late(k) =>
           There(k) \/ proc[p] \in Late(k) \/ job[p][k].pc = "ok"
<1>1. Own(p)
      BY DEF Inv
<1>2. \E pc \in ProcPc : Goal(pc)
      <2>1. CASE PythonFails(p)
            <3>1. Goal("failed") /\ "failed" \in ProcPc
                  BY <1>1, <2>1 DEF PythonFails, Goes, ProcPc, Own, Late, Serving, Free, Empty, Orphan,
                                    NoJob, Final, history
            <3> QED BY <3>1
      <2>2. CASE JoinErr(p)
            <3>1. Goal("failed") /\ "failed" \in ProcPc
                  BY <1>1, <2>2 DEF JoinErr, ProcPc, Own, Late, Serving, history
            <3> QED BY <3>1
      <2>3. CASE LoadFiles(p)
            <3>1. Goal("engine") \/ Goal("failed")
                  BY <1>1, <2>3 DEF LoadFiles, Goes, ProcPc, Own, Late, Serving, history
            <3> HIDE DEF Goal
            <3> QED BY <3>1 DEF ProcPc
      <2>4. CASE EngineFound(p)
            <3>1. Goal("session") /\ "session" \in ProcPc
                  BY <1>1, <2>4 DEF EngineFound, Goes, ProcPc, Late, Serving, NoJob, history
            <3> QED BY <3>1
      <2>5. CASE CreateSession(p)
            <3>1. Goal("up") \/ Goal("failed")
                  BY <1>1, <2>5 DEF CreateSession, Goes, ProcPc, Own, Late, Serving, history
            <3> HIDE DEF Goal
            <3> QED BY <3>1 DEF ProcPc
      <2> HIDE DEF Goal
      <2> QED BY <2>1, <2>2, <2>3, <2>4, <2>5
<1> QED BY <1>2, GoesAdvances

\* A call starts, and either finds everything there or sets out to fetch it.
LEMMA StartAdvances ==
    ASSUME Inv, Mixes, NEW p \in Proc, Start(p)
    PROVE  Advances
<1>1. /\ proc[p] = "off" /\ job[p] = [n \in Final |-> NoJob] /\ Own(p)
      /\ proc \in [Proc -> ProcPc] /\ job \in [Proc -> [Final -> Job]]
      /\ hurt \subseteq Final /\ lost \in BOOLEAN /\ "engine" \in Final /\ Built \subseteq Final
      BY Names DEF Start, Free, Empty, Orphan, Inv, RestOK, FilesOK
<1>2. \A n \in Final : job[p][n].pc = "idle"
      BY <1>1 DEF NoJob
<1>3. CASE Cached
      <2>1. \A k \in Needed : There(k)
            BY <1>3 DEF Cached, Needed, There, Nonempty
      <2>2. proc' = [proc EXCEPT ![p] = "load"] /\ UNCHANGED <<disk, job, faults, hurt, lost>>
            BY <1>3 DEF Start, Goes, history
      <2>3. "load" \in ProcPc \ {"download"}
            BY DEF ProcPc
      <2> QED BY <1>1, <1>2, <2>1, <2>2, <2>3, GoesAdvances
<1>4. CASE ~Cached
      <2>1. /\ proc' = [proc EXCEPT ![p] = "download"] /\ UNCHANGED <<disk, faults, hurt, lost>>
            /\ job' = [job EXCEPT ![p] =
                         [n \in Final |-> IF n \in Download THEN Ended("check") ELSE NoJob]]
            BY <1>4 DEF Start, Goes, history
      <2>2. /\ Ended("check") \in Job /\ NoJob \in Job
            /\ Ended("check").fd = "none" /\ Ended("check").pc = "check"
            BY EndedIsAJob, NoJobIsAJob DEF JobPc
      <2>3. /\ job' \in [Proc -> [Final -> Job]]
            /\ \A q \in Proc, k \in Final : q # p \/ k \notin Download => job'[q][k] = job[q][k]
            /\ \A k \in Download : job'[p][k] = Ended("check")
            BY <1>1, <2>1, <2>2, Names
      <2>4. Resets(p, Download) /\ Download \in SUBSET Final
            BY <1>2, <2>1, <2>2, <2>3, Names DEF Resets, disk
      <2>5. \A k \in Needed \ mixed' : SeenFirst(k)
            BY <1>1, <2>1 DEF SeenFirst, Late, Serving
      <2>6. \A k \in Final \ mixed' : Sound(k)' /\ (k \in Kept /\ Whole(k) => Whole(k)')
            BY <2>1, <2>4, <2>5, ResetsSound
      <2>7. FilesOK'
            BY <2>4, ResetsFiles
      <2>8. RestOK'
            BY <1>1, <2>1, RestStays DEF ProcPc, disk
      <2>9. ASSUME NEW q \in Proc
            PROVE  Own(q)'
            <3>1. Own(q) /\ (q # p => proc'[q] = proc[q])
                  BY <1>1, <2>1 DEF Inv
            <3>2. \A k \in Built \cup {"engine"} : job'[q][k] = job[q][k]
                  BY <1>1, <2>3, Names
            <3>3. \A k \in Built \cup {"engine"} : q = p => job[q][k].pc = "idle"
                  BY <1>1, <1>2
            <3> QED BY <3>1, <3>2, <3>3 DEF Own
      <2> QED BY <2>6, <2>7, <2>8, <2>9 DEF Advances
<1> QED BY <1>3, <1>4

LEMMA JoinAdvances ==
    ASSUME Inv, Mixes, NEW p \in Proc, JoinOk(p)
    PROVE  Advances
<1>1. /\ proc \in [Proc -> ProcPc] /\ job \in [Proc -> [Final -> Job]] /\ Own(p)
      /\ hurt \subseteq Final /\ lost \in BOOLEAN /\ UNCHANGED <<disk, faults, hurt, lost>>
      /\ {"build", "clean"} \subseteq ProcPc /\ Built \subseteq Final /\ "engine" \in Final
      BY Names DEF JoinOk, Inv, RestOK, FilesOK, history, ProcPc
<1>2. CASE DownloadsJoined(p)
      <2>1. /\ proc[p] = "download" /\ proc' = [proc EXCEPT ![p] = "build"]
            /\ \A n \in Download : job[p][n].pc = "ok"
            /\ job' = [job EXCEPT ![p]["model"] = Ended("fetch"), ![p]["vocab"] = Ended("check")]
            BY <1>2 DEF DownloadsJoined, Goes
      <2>2. PICK e, f : e = Ended("fetch") /\ f = Ended("check")
            OBVIOUS
      <2>3. /\ e \in Job /\ e.fd = "none" /\ e.pc = "fetch"
            /\ f \in Job /\ f.fd = "none" /\ f.pc = "check"
            BY <2>2, EndedIsAJob DEF JobPc, AtWork
      <2>4. /\ job' \in [Proc -> [Final -> Job]]
            /\ \A q \in Proc, k \in Final : q # p \/ k \notin Built => job'[q][k] = job[q][k]
            /\ job'[p]["model"] = e /\ job'[p]["vocab"] = f
            BY <1>1, <2>1, <2>2, <2>3 DEF Built
      <2>5. \A n \in Built : job[p][n].pc = "idle"
            BY <1>1, <2>1 DEF Own
      <2>6. Resets(p, Built) /\ Built \in SUBSET Final
            BY <1>1, <2>3, <2>4, <2>5 DEF Resets, disk, Built
      <2>7. \A k \in Needed \ mixed' : SeenFirst(k)
            BY <1>1, <2>1 DEF SeenFirst, Late, Serving
      <2>8. \A k \in Final \ mixed' : Sound(k)' /\ (k \in Kept /\ Whole(k) => Whole(k)')
            BY <1>1, <2>6, <2>7, ResetsSound
      <2>9. FilesOK'
            BY <2>6, ResetsFiles
      <2>10. RestOK'
            BY <1>1, <2>1, RestStays DEF disk
      <2>11. ASSUME NEW q \in Proc
             PROVE  Own(q)'
             <3>1. Own(q) /\ (q # p => proc'[q] = proc[q]) /\ proc'[p] = "build"
                   BY <1>1, <2>1 DEF Inv
             <3>2. job'[q]["engine"] = job[q]["engine"]
                   BY <1>1, <2>4, Names
             <3>3. q # p => \A k \in Built : job'[q][k] = job[q][k]
                   BY <1>1, <2>4
             <3> QED BY <2>1, <3>1, <3>2, <3>3 DEF Own
      <2> QED BY <2>8, <2>9, <2>10, <2>11 DEF Advances
<1>3. CASE ~DownloadsJoined(p)
      <2>1. /\ proc[p] = "build" /\ proc' = [proc EXCEPT ![p] = "clean"] /\ UNCHANGED job
            /\ \A n \in Built : job[p][n].pc = "ok"
            BY <1>3 DEF JoinOk, Goes
      <2>2. \A k \in Needed : proc[p] \in Late(k) \/ job[p][k].pc = "ok"
            BY <2>1 DEF Needed, Late, Download, Built
      <2> QED BY <1>1, <2>1, <2>2, GoesAdvances DEF Own
<1> QED BY <1>2, <1>3

\* A program ends.  What stays of its children was not waiting for anything.
LEMMA EndsAdvances ==
    ASSUME Inv, Mixes, NEW p \in Proc, Ends(p), Fault \/ UNCHANGED faults
    PROVE  Advances
<1>1. PICK left \in SUBSET Children(p) :
        /\ proc' = [proc EXCEPT ![p] = "off"]
        /\ job' = [job EXCEPT ![p] = [n \in Final |-> IF n \in left THEN @[n] ELSE NoJob]]
        /\ hurt' = hurt \cup {n \in Final \ (Download \cup left) : job[p][n].pc = "writing"}
        /\ UNCHANGED <<disk, lost>>
      BY DEF Ends
<1>2. /\ proc \in [Proc -> ProcPc] /\ job \in [Proc -> [Final -> Job]]
      /\ hurt \subseteq Final /\ lost \in BOOLEAN /\ "off" \in ProcPc
      BY DEF Inv, RestOK, FilesOK, ProcPc
<1>3. /\ job' \in [Proc -> [Final -> Job]]
      /\ \A q \in Proc, k \in Final : q # p \/ k \in left => job'[q][k] = job[q][k]
      /\ \A k \in Final \ left : job'[p][k] = NoJob
      BY <1>1, <1>2, NoJobIsAJob
<1>4. \A k \in Final \ left : job[p][k].pc = "writing" => k \in hurt' \/ k \notin Built
      BY <1>1, BuiltNames
<1>5. Resets(p, Final \ left) /\ Final \ left \in SUBSET Final
      BY <1>1, <1>3, <1>4, NoJobIsAJob DEF Resets, disk
<1>6. \A k \in Needed \ mixed' : SeenFirst(k)
      BY <1>1, <1>2 DEF SeenFirst, Late, Serving
<1>7. hurt \subseteq hurt' /\ hurt' \subseteq Final
      BY <1>1, <1>2
<1>8. \A k \in Final \ mixed' : Sound(k)' /\ (k \in Kept /\ Whole(k) => Whole(k)')
      BY <1>5, <1>6, <1>7, ResetsSound
<1>9. FilesOK'
      BY <1>5, ResetsFiles
<1>10. RestOK'
      BY <1>1, <1>2, <1>7, RestStays DEF disk
<1>11. ASSUME NEW q \in Proc
       PROVE  Own(q)'
      <2>1. Own(q)
            BY DEF Inv
      <2>2. CASE q # p
            BY <1>1, <1>2, <1>3, <2>1, <2>2, Names DEF Own
      <2>3. CASE q = p
            <3>1. proc'[q] = "off"
                  BY <1>1, <1>2, <2>3
            <3>2. job'[q]["engine"].pc \in {"idle", "fetch"}
                  BY <1>3, <2>3, Names, NoJobIsAJob DEF Children
            <3> QED BY <3>1, <3>2 DEF Own
      <2> QED BY <2>2, <2>3
<1> QED BY <1>8, <1>9, <1>10, <1>11 DEF Advances

LEMMA RemoveRawAdvances ==
    ASSUME Inv, Mixes, NEW p \in Proc, RemoveRaw(p)
    PROVE  Advances
<1>1. /\ FilesOK' /\ Works(p, "raw") /\ "raw" \in Final
      /\ \A q \in Proc, k \in Final : job'[q][k].pc = job[q][k].pc
      BY RemoveRawWorks DEF Final, Download
<1>2. /\ proc[p] = "clean" /\ proc' = [proc EXCEPT ![p] = "load"]
      /\ UNCHANGED <<remote, faults, hurt, lost>>
      BY DEF RemoveRaw, Goes, history
<1>3. /\ proc \in [Proc -> ProcPc] /\ hurt \subseteq Final /\ lost \in BOOLEAN
      /\ \A q \in Proc : Own(q)
      BY DEF Inv, RestOK
<1>4. NoneLater
      BY <1>2, <1>3 DEF NoneLater, Late
<1>5. \A k \in Final \ mixed' : Sound(k)' /\ (k \in Kept /\ Whole(k) => Whole(k)')
      BY <1>1, <1>4, WorksSound
<1>6. RestOK'
      BY <1>2, <1>3, RestStays DEF ProcPc
<1>7. \A q \in Proc : Own(q)'
      BY <1>1, <1>2, <1>3, Names DEF Own
<1> QED BY <1>1, <1>5, <1>6, <1>7 DEF Advances

-----------------------------------------------------------------------------
(* The invariant. *)

LEMMA StepAdvances ==
    ASSUME Inv, Next
    PROVE  Advances
<1>1. Mixes /\ Step
      BY DEF Next
<1>2. PICK p \in Proc : \/ Thread(p) \/ Child(p) \/ Main(p) \/ Faulty(p)
                        \/ Exits(p, "failed") \/ Exits(p, "up")
      BY <1>1 DEF Step
<1>3. CASE Thread(p)
      BY <1>1, <1>3, DownloadAdvances, ScriptAdvances, EngineStepAdvances DEF Thread, Built
<1>4. CASE Child(p)
      BY <1>1, <1>4, DownloadAdvances, ScriptAdvances, WriteAdvances, EngineStepAdvances DEF Child
<1>5. CASE Main(p)
      BY <1>1, <1>5, StartAdvances, JoinAdvances, MainAdvances, RemoveRawAdvances,
         EngineStepAdvances DEF Main
<1>6. CASE Faulty(p)
      BY <1>1, <1>6, MainAdvances, EndsAdvances, EngineStepAdvances, DownloadAdvances,
         ScriptAdvances DEF Faulty, Killed
<1>7. CASE Exits(p, "failed") \/ Exits(p, "up")
      BY <1>1, <1>7, EndsAdvances DEF Exits
<1> QED BY <1>2, <1>3, <1>4, <1>5, <1>6, <1>7

\* What earlier calls have finished is whole.
LEMMA InitInv == Init => Inv
<1> SUFFICES ASSUME Init PROVE Inv
    OBVIOUS
<1>1. /\ present \in Earlier /\ present \subseteq Final
      /\ blocks = [f \in Path |-> IF f \in present THEN Block ELSE {}]
      /\ job = [p \in Proc |-> [n \in Final |-> NoJob]]
      /\ proc = [p \in Proc |-> "off"]
      BY ProvisionAssumption DEF Init
<1>2. \A q \in Proc, n \in Final : job[q][n].pc = "idle" /\ job[q][n].fd = "none"
      BY <1>1, NoJobIsAJob
<1>3. FilesOK
      <2>1. job \in [Proc -> [Final -> Job]]
            BY <1>1, NoJobIsAJob
      <2>2. blocks \in [Path -> SUBSET Block] /\ \A f \in Path \ present : blocks[f] = {}
            BY <1>1
      <2> QED BY <1>1, <1>2, <2>1, <2>2, Names DEF FilesOK
<1>4. RestOK
      <2>1. remote \in {NoObject} \cup SUBSET Block
            BY DEF Init
      <2>2. proc \in [Proc -> ProcPc]
            BY <1>1 DEF ProcPc
      <2>3. faults \in 0..MaxFaults
            BY ProvisionAssumption DEF Init
      <2>4. hurt \subseteq Final /\ lost \in BOOLEAN /\ mixed \subseteq Final
            BY DEF Init
      <2> QED BY <2>1, <2>2, <2>3, <2>4 DEF RestOK
<1>5. Clashing(job) \subseteq mixed
      BY <1>2 DEF Clashing, AtWork
<1>6. \A q \in Proc : Own(q)
      BY <1>1, <1>2, Names DEF Own
<1>7. ASSUME NEW n \in Final
      PROVE  Sound(n)
      <2>1. \A q \in Proc : Good(q, n)
            BY <1>2 DEF Good
      <2>2. n \in present => blocks[n] = Block
            BY <1>1, Names
      <2>3. \A q \in Proc : proc[q] = "off" /\ job[q][n].pc = "idle"
            BY <1>1, <1>2
      <2> QED BY <2>1, <2>2, <2>3 DEF Sound, Found, Seen, Late, Serving
<1> QED BY <1>3, <1>4, <1>5, <1>6, <1>7 DEF Inv

LEMMA NextInv == Inv /\ [Next]_vars => Inv'
<1> SUFFICES ASSUME Inv, [Next]_vars PROVE Inv'
    OBVIOUS
<1>1. CASE Next
      <2>1. Advances
            BY <1>1, StepAdvances
      <2>2. (Clashing(job) \subseteq mixed)'
            BY <1>1 DEF Next, Mixes
      <2> QED BY <2>1, <2>2 DEF Advances, Inv
<1>2. CASE UNCHANGED vars
      <2>1. UNCHANGED <<present, blocks, remote, proc, job, faults, hurt, lost, mixed>>
            BY <1>2 DEF vars, disk, history
      <2>2. FilesOK' /\ RestOK' /\ (Clashing(job) \subseteq mixed)'
            BY <2>1 DEF Inv, FilesOK, RestOK, Clashing
      <2>3. \A q \in Proc : Own(q)'
            BY <2>1 DEF Inv, Own
      <2>4. \A n \in Final \ mixed' : Sound(n)'
            BY <2>1 DEF Inv, Sound, Good, Found, Writing, Seen, There
      <2> QED BY <2>2, <2>3, <2>4 DEF Inv
<1> QED BY <1>1, <1>2

\* The invariant holds in every reachable state.
THEOREM Invariant == Spec => []Inv
BY InitInv, NextInv, PTL DEF Spec

\* Every variable keeps its type, however many places, blocks and faults there
\* are (the whole of Provision).
THEOREM TypeCorrect == Spec => []TypeOK
<1>1. Inv => TypeOK
      BY DEF Inv, FilesOK, RestOK, TypeOK, ProcPc, Job, JobPc
<1> QED BY <1>1, Invariant, PTL

\* A downloaded file under its own name is whole, whatever becomes of programs
\* and of their children, orphans included, unless two calls or what is left of
\* them have been downloading that file at the same time (download_hf_file).
THEOREM DownloadsWhole == Spec => []PartialOnlyIfMixed
<1>1. Inv => PartialOnlyIfMixed
      BY Names DEF Inv, Sound, Found, PartialOnlyIfMixed, Whole
<1> QED BY <1>1, Invariant, PTL

\* After ensure_model everything it promises is there; a file that is not whole
\* was left half-written, is being written, or two calls have worked on it.
THEOREM ReadyComplete == Spec => []ReadyIsComplete
<1>1. ASSUME Inv PROVE ReadyIsComplete
      <2> SUFFICES ASSUME NEW p \in Proc, proc[p] \in Serving
                   PROVE  /\ \A n \in {"tokenizer", "config"} \ mixed : Whole(n)
                          /\ \A n \in Built \ mixed :
                               n \in present /\ (n \in hurt \/ Writing(n) \/ Whole(n))
          BY DEF ReadyIsComplete, Serving
      <2>1. \A n \in Needed \ mixed : Found(n) /\ There(n)
            BY <1>1, Names DEF Inv, Sound, Seen, Late, Needed, Final, Download, Built
      <2>2. \A n \in {"tokenizer", "config"} \ mixed : Whole(n)
            BY <2>1 DEF Needed, Found, There, Whole, Download
      <2>3. \A n \in Built \ mixed : n \in present /\ (n \in hurt \/ Writing(n) \/ Whole(n))
            BY <2>1 DEF Needed, Found, There, Whole, Built
      <2> QED BY <2>2, <2>3
<1> QED BY <1>1, Invariant, PTL

\* No step destroys a finished file, unless two calls have worked on it at the
\* same time: neither the checks of a later start nor an orphan of an earlier.
THEOREM FinishedIsKept == Spec => FinishedWorkStays
<1>1. ASSUME Inv, [Next]_vars
      PROVE  [\A n \in {"tokenizer", "config", "vocab", "engine"} :
                Whole(n) => Whole(n)' \/ n \in mixed']_vars
      <2>1. CASE Next
            <3>1. \A k \in Final \ mixed' : k \in Kept /\ Whole(k) => Whole(k)'
                  BY <1>1, <2>1, StepAdvances DEF Advances
            <3> QED BY <3>1 DEF Kept, Final, Download, Built
      <2>2. CASE UNCHANGED vars
            BY <2>2
      <2> QED BY <1>1, <2>1, <2>2
<1> QED BY <1>1, Invariant, PTL DEF Spec, FinishedWorkStays

-----------------------------------------------------------------------------
(* The engine in the S3 cache, when calls run one after the other. *)

\* At most one call is on its way,
Live(q) == proc[q] \notin {"off", "failed", "up"}
OneLive == \A q, r \in Proc : Live(q) /\ Live(r) => q = r

\* and an engine it compiles is whole unless a write was lost, wherever its
\* name has gone.
Compiled(q) ==
    LET j == job[q]["engine"] IN
    /\ j.pc = "writing" /\ j.fd # "none" => blocks["engine"] \cup j.todo = Block \/ lost
    /\ j.pc = "closed" \/ (j.pc = "writing" /\ j.fd = "none") => blocks["engine"] = Block \/ lost

\* Only a start makes a call live.
LEMMA LiveStep ==
    ASSUME Inv, NEW p \in Proc,
           \/ Thread(p) \/ Child(p) \/ (Main(p) /\ ~Start(p)) \/ Faulty(p)
           \/ Exits(p, "failed") \/ Exits(p, "up")
    PROVE  \A q \in Proc : Live(q)' => Live(q)
<1> TAKE q \in Proc
<1> SUFFICES proc'[q] = proc[q] \/ proc'[q] \in {"off", "failed"} \/ Live(q)
    BY DEF Live
<1>1. Own(p) /\ proc \in [Proc -> ProcPc]
      BY DEF Inv, RestOK
<1>2. CASE Thread(p)
      <2>1. UNCHANGED proc \/ proc' = [proc EXCEPT ![p] = "failed"]
            BY <1>2 DEF Thread, DownloadCheck, DownloadSize, DownloadRename, ScriptCheck, VocabCheck,
                        CompileOpen, Open, Goes
      <2> QED BY <1>1, <2>1
<1>3. CASE Child(p)
      <2>1. CASE EngineFetched(p) \/ EngineNotFetched(p)
            <3>1. proc[p] \in {"engine", "off"}
                  BY <1>1, <2>1 DEF EngineFetched, EngineNotFetched, Own
            <3> QED BY <1>1, <2>1, <3>1 DEF EngineFetched, EngineNotFetched, Orphan, Live
      <2>2. CASE ~(EngineFetched(p) \/ EngineNotFetched(p))
            <3>1. UNCHANGED proc
                  BY <1>3, <2>2 DEF Child, DownloadOpen, ScriptOpen, Open, Write
            <3> QED BY <3>1
      <2> QED BY <2>1, <2>2
<1>4. CASE Main(p) /\ ~Start(p)
      <2>1. proc[p] \notin {"off", "failed", "up"} /\ \A r \in Proc \ {p} : proc'[r] = proc[r]
            BY <1>1, <1>4 DEF Main, LoadFiles, CreateSession, EngineFound, EngineAsk, EngineMissing,
                              CompileUpload, JoinOk, DownloadsJoined, JoinErr, RemoveRaw, Goes
      <2> QED BY <2>1 DEF Live
<1>5. CASE Faulty(p)
      <2>1. UNCHANGED proc \/ proc' \in {[proc EXCEPT ![p] = "failed"], [proc EXCEPT ![p] = "off"]}
            BY <1>5 DEF Faulty, PythonFails, Killed, Ends, CompileLosesWrite, NativeFails,
                        DownloadRetry, DownloadFails, ScriptFails, Goes
      <2> QED BY <1>1, <2>1
<1>6. CASE Exits(p, "failed") \/ Exits(p, "up")
      <2>1. proc' = [proc EXCEPT ![p] = "off"]
            BY <1>6 DEF Exits, Ends
      <2> QED BY <1>1, <2>1
<1> QED BY <1>2, <1>3, <1>4, <1>5, <1>6

LEMMA OneLiveStays ==
    ASSUME Inv, ~Shared, OneLive, Next
    PROVE  OneLive'
<1>1. PICK p \in Proc : \/ Thread(p) \/ Child(p) \/ Main(p) \/ Faulty(p)
                        \/ Exits(p, "failed") \/ Exits(p, "up")
      BY DEF Next, Step
<1>2. CASE Start(p)
      <2>1. \A q \in Proc : ~Live(q)
            BY <1>2 DEF Start, Free, Live
      <2>2. \A q \in Proc \ {p} : proc'[q] = proc[q]
            BY <1>2 DEF Start, Goes, Inv, RestOK
      <2> QED BY <2>1, <2>2 DEF OneLive, Live
<1>3. CASE ~Start(p)
      <2>1. \A q \in Proc : Live(q)' => Live(q)
            BY <1>1, <1>3, LiveStep
      <2> QED BY <2>1 DEF OneLive
<1> QED BY <1>2, <1>3

\* Whoever compiles is the only one.
LEMMA OneCompiles ==
    ASSUME Inv, OneLive, NEW p \in Proc,
           job[p]["engine"].pc \in {"compile", "writing", "closed"}
    PROVE  \A q \in Proc \ {p} : job[q]["engine"].pc \notin {"compile", "writing", "closed"}
BY DEF Inv, Own, OneLive, Live

\* A step leaves the engines that are being written as they are.
EngineKept ==
    /\ blocks'["engine"] = blocks["engine"] /\ UNCHANGED lost
    /\ \A q \in Proc : job'[q]["engine"].pc \in {"writing", "closed"} =>
         /\ job'[q]["engine"].pc = job[q]["engine"].pc
         /\ job'[q]["engine"].fd = job[q]["engine"].fd
         /\ job'[q]["engine"].todo = job[q]["engine"].todo

LEMMA KeptCompiled ==
    ASSUME \A q \in Proc : Compiled(q), EngineKept
    PROVE  \A q \in Proc : Compiled(q)'
BY DEF EngineKept, Compiled

\* What works on another file, and what the calls do themselves.
LEMMA OthersKeep ==
    ASSUME Inv, Mixes, NEW p \in Proc,
           \/ \E n \in Download :
                \/ DownloadCheck(p, n) \/ DownloadOpen(p, n) \/ DownloadRetry(p, n)
                \/ DownloadFails(p, n) \/ DownloadSize(p, n) \/ DownloadRename(p, n)
           \/ \E n \in Built : ScriptOpen(p, n) \/ ScriptFails(p, n) \/ ScriptCheck(p, n)
           \/ VocabCheck(p) \/ RemoveRaw(p)
           \/ \E n \in Final \ {"engine"} : Write(p, n)
    PROVE  EngineKept /\ UNCHANGED remote
<1>1. UNCHANGED <<lost, remote>>
      BY DEF DownloadCheck, DownloadOpen, Open, DownloadRetry, DownloadFails, DownloadSize,
             DownloadRename, ScriptOpen, ScriptFails, ScriptCheck, VocabCheck, RemoveRaw, Write,
             disk, history
<1>2. \E n \in Final \ {"engine"} : Works(p, n)
      <2>1. "raw" \in Final \ {"engine"} /\ "vocab" \in Final \ {"engine"}
            /\ Download \subseteq Final \ {"engine"} /\ Built \subseteq Final \ {"engine"}
            BY DEF Final, Download, Built
      <2> QED BY <2>1, DownloadCheckWorks, DownloadOpenWorks, DownloadRetryWorks, DownloadFailsWorks,
                 DownloadSizeWorks, DownloadRenameWorks, ScriptOpenWorks, ScriptFailsWorks,
                 ScriptCheckWorks, VocabCheckWorks, RemoveRawWorks, WriteWorks
<1>3. Same("engine")
      BY <1>2, EngineNames DEF Works, Only
<1> QED BY <1>1, <1>3 DEF EngineKept, Same

LEMMA CallsKeep ==
    ASSUME Inv, NEW p \in Proc,
           \/ Start(p) \/ JoinOk(p) \/ PythonFails(p) \/ JoinErr(p) \/ LoadFiles(p)
           \/ EngineFound(p) \/ CreateSession(p) \/ Ends(p)
    PROVE  EngineKept /\ UNCHANGED remote
<1>1. job \in [Proc -> [Final -> Job]] /\ "engine" \in Final \ (Download \cup Built)
      BY EngineNames DEF Inv, FilesOK
<1>2. UNCHANGED <<disk, lost>>
      BY DEF Start, JoinOk, PythonFails, JoinErr, LoadFiles, EngineFound, CreateSession, Ends, history
<1>3. ASSUME NEW q \in Proc
      PROVE  job'[q]["engine"] = job[q]["engine"] \/ job'[q]["engine"] = NoJob
      <2>1. CASE Start(p)
            BY <1>1, <2>1 DEF Start
      <2>2. CASE JoinOk(p)
            BY <1>1, <2>2 DEF JoinOk, DownloadsJoined, Built
      <2>3. CASE Ends(p)
            <3>1. PICK left \in SUBSET Children(p) :
                    job' = [job EXCEPT ![p] = [n \in Final |-> IF n \in left THEN @[n] ELSE NoJob]]
                  BY <2>3 DEF Ends
            <3> QED BY <1>1, <3>1
      <2>4. CASE UNCHANGED job
            BY <2>4
      <2> QED BY <2>1, <2>2, <2>3, <2>4 DEF PythonFails, JoinErr, LoadFiles, EngineFound, CreateSession
<1> QED BY <1>2, <1>3, NoJobIsAJob DEF EngineKept, disk

\* The engine's job ends or begins anew, and nothing is written.
LEMMA EngineKeeps ==
    ASSUME Inv, NEW p \in Proc,
           \/ EngineAsk(p) \/ EngineNotFetched(p) \/ EngineMissing(p) \/ CompileUpload(p)
           \/ NativeFails(p) \/ (CompileOpen(p) /\ ~Whole("model"))
    PROVE  EngineKept
<1>1. UNCHANGED <<present, blocks, lost>>
      BY DEF EngineAsk, EngineNotFetched, EngineMissing, CompileUpload, NativeFails, CompileOpen,
             disk, history
<1>2. PICK c \in JobPc \ {"writing", "closed"} :
        job' = SetJob(p, "engine", Ended(c)) \/ job' = SetJob(p, "engine", Exited(p, c))
        \/ (job' = SetJob(p, "engine", NoJob) /\ c = "idle")
      BY DEF EngineAsk, EngineNotFetched, EngineMissing, CompileUpload, NativeFails, CompileOpen,
             JobPc, AtWork
<1>3. job'[p]["engine"].pc \notin {"writing", "closed"}
      BY <1>2, EngineJob
<1>4. PICK j \in Job : job' = SetJob(p, "engine", j)
      BY <1>2, EndedIsAJob, ExitedIsAJob, NoJobIsAJob
<1>5. \A q \in Proc \ {p} : job'[q]["engine"] = job[q]["engine"]
      BY <1>4, EngineNames, SetJobType DEF Inv
<1> QED BY <1>1, <1>3, <1>5 DEF EngineKept

\* The next block of an engine makes it, with what is left, no less whole.
LEMMA WriteEngine ==
    ASSUME Inv, OneLive, \A q \in Proc : Compiled(q), NEW p \in Proc, Write(p, "engine")
    PROVE  (\A q \in Proc : Compiled(q)') /\ UNCHANGED <<remote, lost>>
<1>1. PICK i, b : i = job[p]["engine"] /\ b = CHOOSE x \in i.todo : \A y \in i.todo : x <= y
      OBVIOUS
<1>2. PICK j : j = IF i.todo = {b} THEN Exited(p, "closed") ELSE [i EXCEPT !.todo = i.todo \ {b}]
      OBVIOUS
<1>3. FilesOK /\ i \in Job /\ i.fd \in {"engine", "none"} /\ "engine" # "none" /\ Compiled(p)
      BY <1>1, EngineNames, OpenIsPath DEF Inv
<1>4. /\ i.pc = "writing" /\ i.todo # {} /\ job' = SetJob(p, "engine", j)
      /\ blocks' = IF i.fd = "none" THEN blocks ELSE [blocks EXCEPT ![i.fd] = blocks[i.fd] \cup {b}]
      /\ UNCHANGED <<remote, lost>>
      BY <1>1, <1>2 DEF Write, history
<1>5. /\ j \in Job
      /\ \/ i.todo = {b} /\ j.pc \in {"idle", "closed"}
         \/ i.todo # {b} /\ j.pc = "writing" /\ j.fd = i.fd /\ j.todo = i.todo \ {b}
      <2>1. CASE i.todo = {b}
            <3>1. j = Exited(p, "closed") /\ "closed" \in JobPc
                  BY <1>2, <2>1 DEF JobPc, AtWork
            <3> QED BY <2>1, <3>1, ExitedIsAJob
      <2>2. CASE i.todo # {b}
            <3>1. j = [i EXCEPT !.todo = i.todo \ {b}]
                  BY <1>2, <2>2
            <3> QED BY <1>3, <1>4, <2>2, <3>1 DEF Job
      <2> QED BY <2>1, <2>2
<1>6. b \in i.todo
      BY <1>1, <1>3, <1>4, NextBlock DEF Job
<1>7. /\ job'[p]["engine"] = j
      /\ \A q \in Proc \ {p} : job'[q]["engine"] = job[q]["engine"]
      BY <1>3, <1>4, <1>5, EngineNames, SetJobType
<1>8. PICK B : B = blocks["engine"]
      OBVIOUS
<1>9. blocks'["engine"] = IF i.fd = "engine" THEN B \cup {b} ELSE B
      BY <1>3, <1>4, <1>8, EngineNames DEF FilesOK
<1>10. (i.fd = "engine" => B \cup i.todo = Block \/ lost) /\ (i.fd = "none" => B = Block \/ lost)
      BY <1>1, <1>3, <1>4, <1>8 DEF Compiled
<1>11. Compiled(p)'
      <2>1. CASE i.todo = {b}
            <3>1. blocks'["engine"] = Block \/ lost'
                  BY <2>1, <1>3, <1>4, <1>9, <1>10
            <3> QED BY <2>1, <1>5, <1>7, <3>1 DEF Compiled
      <2>2. CASE i.todo # {b}
            <3>1. /\ i.fd = "engine" => blocks'["engine"] \cup j.todo = Block \/ lost'
                  /\ i.fd = "none" => blocks'["engine"] = Block \/ lost'
                  BY <2>2, <1>4, <1>5, <1>6, <1>9, <1>10
            <3> QED BY <2>2, <1>3, <1>5, <1>7, <3>1 DEF Compiled
      <2> QED BY <2>1, <2>2
<1>12. \A q \in Proc \ {p} : Compiled(q)'
      <2>1. \A q \in Proc \ {p} : job'[q]["engine"].pc \notin {"writing", "closed"}
            BY <1>1, <1>4, <1>7, OneCompiles
      <2> QED BY <2>1 DEF Compiled
<1> QED BY <1>4, <1>11, <1>12

LEMMA RemoteStep ==
    ASSUME Inv, Next, OneLive, \A q \in Proc : Compiled(q), RemoteDamageIsALostWrite
    PROVE  (\A q \in Proc : Compiled(q)') /\ RemoteDamageIsALostWrite'
<1>1. Mixes
      BY DEF Next
<1>2. PICK p \in Proc : \/ Thread(p) \/ Child(p) \/ Main(p) \/ Faulty(p)
                        \/ Exits(p, "failed") \/ Exits(p, "up")
      BY DEF Next, Step
<1>3. CASE EngineKept /\ UNCHANGED remote
      BY <1>3, KeptCompiled DEF EngineKept, RemoteDamageIsALostWrite
<1>4. CASE CompileUpload(p)
      <2>1. EngineKept
            BY <1>4, EngineKeeps
      <2>2. blocks["engine"] = Block \/ lost
            BY <1>4 DEF CompileUpload, Compiled
      <2>3. remote' \in {remote, blocks["engine"]}
            BY <1>4 DEF CompileUpload
      <2> QED BY <2>1, <2>2, <2>3, KeptCompiled DEF EngineKept, RemoteDamageIsALostWrite
<1>5. CASE EngineAsk(p) \/ EngineNotFetched(p) \/ EngineMissing(p) \/ NativeFails(p)
           \/ (CompileOpen(p) /\ ~Whole("model"))
      <2>1. EngineKept
            BY <1>5, EngineKeeps
      <2>2. UNCHANGED remote
            BY <1>5 DEF EngineAsk, EngineNotFetched, EngineMissing, NativeFails, CompileOpen, disk
      <2> QED BY <1>3, <2>1, <2>2
<1>6. CASE CompileOpen(p) /\ Whole("model")
      <2>1. /\ job[p]["engine"].pc = "compile" /\ Open(p, "engine", "engine") /\ FilesOK
            BY <1>6 DEF CompileOpen, Inv
      <2>2. /\ Only(p, "engine") /\ job'[p]["engine"].pc = "writing" /\ job'[p]["engine"].todo = Block
            /\ blocks'["engine"] = {} /\ job'[p]["engine"].fd = "engine"
            BY <2>1, EngineNames, OpenOnly
      <2>3. Compiled(p)'
            BY <2>2, EngineNames DEF Compiled
      <2>4. \A q \in Proc \ {p} : job'[q]["engine"].pc \notin {"writing", "closed"}
            BY <2>1, <2>2, OneCompiles DEF Only
      <2>5. UNCHANGED <<remote, lost>>
            BY <2>1 DEF Open
      <2> QED BY <2>3, <2>4, <2>5 DEF Compiled, RemoteDamageIsALostWrite
<1>7. CASE CompileLosesWrite(p)
      <2>1. lost' = TRUE
            BY <1>7 DEF CompileLosesWrite
      <2> QED BY <2>1 DEF Compiled, RemoteDamageIsALostWrite
<1>8. CASE EngineFetched(p)
      <2>1. /\ remote # NoObject /\ UNCHANGED <<remote, lost>>
            BY <1>8 DEF EngineFetched, history
      <2>2. /\ Only(p, "engine") /\ job'[p]["engine"].pc \in {"idle", "ok"}
            /\ \A q \in Proc \ {p} : job'[q]["engine"].fd = "none"
            /\ blocks'["engine"] = remote
            BY <1>1, <1>8, EngineFetchedWorks DEF Works
      <2>3. blocks'["engine"] = Block \/ lost'
            BY <2>1, <2>2 DEF RemoteDamageIsALostWrite
      <2>4. \A q \in Proc : job'[q]["engine"].pc \in {"idle", "ok"} \/ job'[q]["engine"].fd = "none"
            BY <2>2
      <2> QED BY <2>1, <2>3, <2>4 DEF Compiled, RemoteDamageIsALostWrite
<1>9. CASE Write(p, "engine")
      BY <1>9, WriteEngine DEF RemoteDamageIsALostWrite
<1>10. CASE Thread(p)
      BY <1>1, <1>3, <1>5, <1>6, <1>10, OthersKeep DEF Thread
<1>11. CASE Child(p)
      <2>1. CASE \E n \in Final : Write(p, n)
            BY <1>1, <1>3, <1>9, <2>1, OthersKeep
      <2> QED BY <1>1, <1>3, <1>5, <1>8, <1>11, <2>1, OthersKeep DEF Child
<1>12. CASE Main(p)
      BY <1>1, <1>3, <1>4, <1>5, <1>12, OthersKeep, CallsKeep DEF Main
<1>13. CASE Faulty(p)
      BY <1>1, <1>3, <1>5, <1>7, <1>13, OthersKeep, CallsKeep DEF Faulty, Killed
<1>14. CASE Exits(p, "failed") \/ Exits(p, "up")
      BY <1>3, <1>14, CallsKeep DEF Exits
<1> QED BY <1>2, <1>10, <1>11, <1>12, <1>13, <1>14

\* If calls run one after the other, what reaches the S3 cache is a whole engine
\* unless a write to an engine was lost: a program killed while it compiles, or
\* an orphan of one, never damages the copy that others use.
THEOREM RemoteIsSound ==
    ASSUME ~Shared
    PROVE  Spec => []RemoteDamageIsALostWrite
<1> DEFINE RInv == OneLive /\ (\A q \in Proc : Compiled(q)) /\ RemoteDamageIsALostWrite
<1>1. Init => RInv
      <2> SUFFICES ASSUME Init PROVE RInv
          OBVIOUS
      <2>1. \A q \in Proc : proc[q] = "off" /\ job[q]["engine"].pc = "idle"
            BY EngineNames, NoJobIsAJob DEF Init
      <2>2. remote \in {NoObject, Block}
            BY DEF Init
      <2> QED BY <2>1, <2>2 DEF OneLive, Live, Compiled, RemoteDamageIsALostWrite
<1>2. RInv /\ Inv /\ [Next]_vars => RInv'
      <2> SUFFICES ASSUME RInv, Inv, [Next]_vars PROVE RInv'
          OBVIOUS
      <2>1. CASE Next
            BY <2>1, OneLiveStays, RemoteStep
      <2>2. CASE UNCHANGED vars
            <3>1. UNCHANGED <<blocks, remote, proc, job, lost>>
                  BY <2>2 DEF vars, disk, history
            <3> QED BY <3>1 DEF OneLive, Live, Compiled, RemoteDamageIsALostWrite
      <2> QED BY <2>1, <2>2
<1>3. RInv => RemoteDamageIsALostWrite
      OBVIOUS
<1> QED BY <1>1, <1>2, <1>3, Invariant, PTL DEF Spec
=============================================================================
