------------------------------ MODULE Provision ------------------------------
(***************************************************************************)
(* Provisioning (provision.rs) and the engine files (Engine::new,          *)
(* trt_compile): a directory on disk that calls of Engine::new fill with   *)
(* three downloads, two files made from them by Python scripts and a       *)
(* compiled TensorRT engine, skipping whatever is already there.           *)
(*                                                                         *)
(* curl, the scripts and aws are processes of their own, and nothing ends  *)
(* them with the call that started them: when the program is killed, or    *)
(* has failed and exits, any of them may go on as an orphan, beside the    *)
(* next call.  A call that returns an error leaves its other threads and   *)
(* their children at work, too, as long as its program lives.              *)
(*                                                                         *)
(* A file is the set of its blocks that have been written; a file written  *)
(* to the end has them all.  A child keeps its file open across renames.   *)
(***************************************************************************)
EXTENDS Naturals, FiniteSets

CONSTANTS
    Proc,       \* places for calls of Engine::new and what is left of them
    Shared,     \* whether two calls may run at the same time
    Block,      \* blocks of a file, numbered in the order they are written
    Earlier,    \* sets of files that earlier calls may have finished already
    MaxFaults   \* bound: how often a program is killed or a child of one fails

Download == {"tokenizer", "config", "raw"}
Built    == {"model", "vocab"}
Final    == Download \cup Built \cup {"engine"}
\* dest.with_extension("tmp")
Tmp(n) == CASE n = "tokenizer" -> "tokenizer.tmp"
            [] n = "config" -> "config.tmp"
            [] n = "raw" -> "raw.tmp"
Path == Final \cup {Tmp(n) : n \in Download}

ASSUME ProvisionAssumption ==
    Shared \in BOOLEAN /\ Block \subseteq Nat /\ Block # {} /\ MaxFaults \in Nat
    /\ Earlier # {} /\ Earlier \subseteq SUBSET Final

VARIABLES
    present,    \* paths that exist
    blocks,     \* path -> blocks of the file there
    remote,     \* the engine in the S3 cache
    proc,       \* place -> where ensure_model and Engine::new are
    job,        \* place, file -> the thread or child that provides the file
    faults,     \* how many faults there have been
    \* History, read by no action:
    hurt,       \* files whose last writer did not get to the end
    lost,       \* whether a write to an engine file has been lost
    mixed       \* files that two calls have been providing at the same time

disk == <<present, blocks, remote>>
history == <<hurt, lost>>
vars == <<disk, proc, job, faults, history, mixed>>

NoObject == {0}     \* no engine in the S3 cache
NoJob == [pc |-> "idle", fd |-> "none", todo |-> {}]

Init ==
    /\ present \in Earlier
    /\ blocks = [f \in Path |-> IF f \in present THEN Block ELSE {}]
    /\ remote \in {NoObject, Block}
    /\ proc = [p \in Proc |-> "off"]
    /\ job = [p \in Proc |-> [n \in Final |-> NoJob]]
    /\ faults = 0 /\ hurt = {} /\ lost = FALSE /\ mixed = {}

-----------------------------------------------------------------------------
\* Files.

Nonempty(f) == f \in present /\ blocks[f] # {}
Whole(f) == f \in present /\ blocks[f] = Block

\* A child holds what it has opened, wherever the name goes.
Moved(fd, from, to) ==
    CASE fd = from -> to
      [] fd = to   -> "none"
      [] OTHER     -> fd
Retarget(jobs, from, to) ==
    [p \in Proc |-> [n \in Final |-> [jobs[p][n] EXCEPT !.fd = Moved(@, from, to)]]]

SetJob(p, n, j) == [job EXCEPT ![p][n] = j]
Ended(pc) == [pc |-> pc, fd |-> "none", todo |-> {}]
Goes(p, from, to) == proc[p] = from /\ proc' = [proc EXCEPT ![p] = to]
Fault == faults < MaxFaults /\ faults' = faults + 1

\* Mutant: the name goes and the contents stay.
RemoveAndEnd_NameOnly(p, n, f, pc) ==
    /\ present' = present \ {f}
    /\ job' = Retarget(SetJob(p, n, Ended(pc)), f, "none")
    /\ UNCHANGED blocks

\* Path f is removed, and the thread of p for n goes on to pc.
RemoveAndEnd(p, n, f, pc) ==
    /\ present' = present \ {f}
    /\ blocks' = [blocks EXCEPT ![f] = {}]
    /\ job' = Retarget(SetJob(p, n, Ended(pc)), f, "none")

-----------------------------------------------------------------------------
\* Children, also those that have outlived the call that started them.

Orphan(p) == proc[p] = "off"
\* A child has exited: the thread that waits for it goes on to pc.
Exited(p, pc) == IF Orphan(p) THEN NoJob ELSE Ended(pc)

\* Opens path f for writing and truncates what is there.
Open(p, n, f) ==
    /\ present' = present \cup {f}
    /\ blocks' = [blocks EXCEPT ![f] = {}]
    /\ job' = SetJob(p, n, [pc |-> "writing", fd |-> f, todo |-> Block])
    /\ hurt' = hurt \ {n}
    /\ UNCHANGED <<remote, proc, faults, lost>>

\* ... and writes its next block at the offset that belongs to it; or the last one.
Write(p, n) ==
    LET j == job[p][n]  b == CHOOSE x \in j.todo : \A y \in j.todo : x <= y IN
    /\ j.pc = "writing" /\ j.todo # {}
    /\ job' = SetJob(p, n, IF j.todo = {b} THEN Exited(p, "closed")
                                           ELSE [j EXCEPT !.todo = @ \ {b}])
    /\ blocks' = IF j.fd = "none" THEN blocks ELSE [blocks EXCEPT ![j.fd] = @ \cup {b}]
    /\ UNCHANGED <<present, remote, proc, faults, history>>

\* What is a process of its own: curl, a script, aws; not the compilation.
Children(p) ==
    {n \in Final : \/ job[p][n].pc = "fetch"
                   \/ n # "engine" /\ job[p][n].pc = "writing"}

\* The program of p ends and with it its threads; of its children, any may stay.
Ends(p) ==
    \E left \in SUBSET Children(p) :
      /\ proc' = [proc EXCEPT ![p] = "off"]
      /\ job' = [job EXCEPT ![p] = [n \in Final |-> IF n \in left THEN @[n] ELSE NoJob]]
      /\ hurt' = hurt \cup {n \in Final \ (Download \cup left) : job[p][n].pc = "writing"}
      /\ UNCHANGED <<disk, lost>>

-----------------------------------------------------------------------------
\* ensure_model: the shortcut, or else Python and its packages first.

\* Mutant: an empty file counts as there.
Cached_Exists == {"model", "tokenizer", "config", "vocab"} \subseteq present

Cached == \A n \in {"model", "tokenizer", "config", "vocab"} : Nonempty(n)

\* A call takes a place in which nothing is left of an earlier one (which of
\* them makes no difference), and runs alone unless calls are shared.
Empty(p) == Orphan(p) /\ job[p] = [n \in Final |-> NoJob]
Free(p) ==
    /\ Empty(p) /\ p = CHOOSE q \in Proc : Empty(q)
    /\ Shared \/ \A q \in Proc : proc[q] \in {"off", "failed", "up"}

Start(p) ==
    /\ Free(p)
    /\ IF Cached
       THEN Goes(p, "off", "load") /\ UNCHANGED job
       ELSE /\ Goes(p, "off", "download")
            /\ job' = [job EXCEPT ![p] =
                         [n \in Final |-> IF n \in Download THEN Ended("check") ELSE NoJob]]
    /\ UNCHANGED <<disk, faults, history>>

PythonFails(p) ==
    /\ Free(p) /\ ~Cached
    /\ Goes(p, "off", "failed") /\ Fault
    /\ UNCHANGED <<disk, job, history>>

-----------------------------------------------------------------------------
\* download_hf_file, a thread for each of the three files, and its curl.

DownloadCheck(p, n) ==
    /\ job[p][n].pc = "check"
    /\ IF Nonempty(n)
       THEN job' = SetJob(p, n, Ended("ok")) /\ UNCHANGED <<present, blocks>>
       ELSE RemoveAndEnd(p, n, n, "fetch")
    /\ UNCHANGED <<remote, proc, faults, history>>

DownloadOpen(p, n) == job[p][n].pc = "fetch" /\ Open(p, n, Tmp(n))

\* curl --retry: the transfer starts again.
DownloadRetry(p, n) ==
    LET j == job[p][n] IN
    /\ j.pc = "writing" /\ j.todo # Block
    /\ job' = SetJob(p, n, [j EXCEPT !.todo = Block])
    /\ blocks' = IF j.fd = "none" THEN blocks ELSE [blocks EXCEPT ![j.fd] = {}]
    /\ Fault
    /\ UNCHANGED <<present, remote, proc, history>>

\* Mutant: curl's exit status is not looked at.
DownloadFails_Unchecked(p, n) ==
    /\ job[p][n].pc \in {"fetch", "writing"} /\ Fault
    /\ job' = SetJob(p, n, Exited(p, "closed"))
    /\ UNCHANGED <<disk, proc, history>>

\* The thread removes what curl has left; nobody does after an orphan.
DownloadFails(p, n) ==
    /\ job[p][n].pc \in {"fetch", "writing"} /\ Fault
    /\ IF Orphan(p)
       THEN job' = SetJob(p, n, NoJob) /\ UNCHANGED <<present, blocks>>
       ELSE RemoveAndEnd(p, n, Tmp(n), "err")
    /\ UNCHANGED <<remote, proc, history>>

DownloadSize(p, n) ==
    /\ job[p][n].pc = "closed"
    /\ IF Nonempty(Tmp(n))
       THEN job' = SetJob(p, n, Ended("sized")) /\ UNCHANGED <<present, blocks>>
       ELSE RemoveAndEnd(p, n, Tmp(n), "err")
    /\ UNCHANGED <<remote, proc, faults, history>>

DownloadRename(p, n) ==
    /\ job[p][n].pc = "sized"
    /\ IF Tmp(n) \in present
       THEN /\ present' = (present \ {Tmp(n)}) \cup {n}
            /\ blocks' = [blocks EXCEPT ![n] = blocks[Tmp(n)], ![Tmp(n)] = {}]
            /\ job' = Retarget(SetJob(p, n, Ended("ok")), Tmp(n), n)
       ELSE /\ job' = SetJob(p, n, Ended("err"))
            /\ UNCHANGED <<present, blocks>>
    /\ UNCHANGED <<remote, proc, faults, history>>

-----------------------------------------------------------------------------
\* The joins, one thread after the other.

Order == [tokenizer |-> 1, config |-> 2, raw |-> 3, model |-> 4, vocab |-> 5]

DownloadsJoined(p) ==
    /\ Goes(p, "download", "build") /\ \A n \in Download : job[p][n].pc = "ok"
    /\ job' = [job EXCEPT ![p]["model"] = Ended("fetch"), ![p]["vocab"] = Ended("check")]

\* Mutant: the thread that builds the vocab cache is not joined.
JoinOk_NoVocab(p) ==
    /\ \/ DownloadsJoined(p)
       \/ Goes(p, "build", "clean") /\ job[p]["model"].pc = "ok" /\ UNCHANGED job
    /\ UNCHANGED <<disk, faults, history>>

JoinOk(p) ==
    /\ \/ DownloadsJoined(p)
       \/ /\ Goes(p, "build", "clean") /\ \A n \in Built : job[p][n].pc = "ok"
          /\ UNCHANGED job
    /\ UNCHANGED <<disk, faults, history>>

\* The first error is returned; threads that are not joined yet go on.
JoinErr(p) ==
    /\ proc[p] \in {"download", "build"} /\ proc' = [proc EXCEPT ![p] = "failed"]
    /\ \E n \in DOMAIN Order :
         /\ job[p][n].pc = "err"
         /\ \A k \in DOMAIN Order : Order[k] < Order[n] => job[p][k].pc = "ok"
    /\ UNCHANGED <<disk, job, faults, history>>

-----------------------------------------------------------------------------
\* export_with_pooling and build_vocab_cache: scripts that write in place.

Input == [model |-> "raw", vocab |-> "tokenizer"]

\* Mutant: the vocab cache is built anew each time.
VocabCheck_Always(p) ==
    /\ job[p]["vocab"].pc = "check"
    /\ RemoveAndEnd(p, "vocab", "vocab", "fetch")
    /\ UNCHANGED <<remote, proc, faults, history>>

VocabCheck(p) ==
    /\ job[p]["vocab"].pc = "check"
    /\ IF Nonempty("vocab")
       THEN job' = SetJob(p, "vocab", Ended("ok")) /\ UNCHANGED <<present, blocks>>
       ELSE RemoveAndEnd(p, "vocab", "vocab", "fetch")
    /\ UNCHANGED <<remote, proc, faults, history>>

ScriptOpen(p, n) ==
    /\ job[p][n].pc = "fetch"
    /\ IF Whole(Input[n])
       THEN Open(p, n, n)
       ELSE /\ job' = SetJob(p, n, Exited(p, "err"))
            /\ UNCHANGED <<disk, proc, faults, history>>

\* A script stops half-way; what it has written stays.
ScriptFails(p, n) ==
    /\ job[p][n].pc \in {"fetch", "writing"} /\ Fault
    /\ job' = SetJob(p, n, Exited(p, "err"))
    /\ hurt' = IF job[p][n].pc = "writing" THEN hurt \cup {n} ELSE hurt
    /\ UNCHANGED <<disk, proc, lost>>

ScriptCheck(p, n) ==
    /\ job[p][n].pc = "closed"
    /\ job' = SetJob(p, n, Ended(IF Nonempty(n) THEN "ok" ELSE "err"))
    /\ UNCHANGED <<disk, proc, faults, history>>

RemoveRaw(p) ==
    /\ Goes(p, "clean", "load")
    /\ present' = present \ {"raw"}
    /\ blocks' = [blocks EXCEPT !["raw"] = {}]
    /\ job' = Retarget(job, "raw", "none")
    /\ UNCHANGED <<remote, faults, history>>

-----------------------------------------------------------------------------
\* Engine::new, after ensure_model.

\* config.json is optional here: what cannot be parsed gets a default.
LoadFiles(p) ==
    /\ Goes(p, "load", IF Whole("tokenizer") /\ ("vocab" \in present => Whole("vocab"))
                       THEN "engine" ELSE "failed")
    /\ UNCHANGED <<disk, job, faults, history>>

\* Mutant: an engine found on disk is offered to the S3 cache, too.
EngineFound_Uploads(p) ==
    /\ job[p]["engine"] = NoJob /\ "engine" \in present
    /\ Goes(p, "engine", "session")
    /\ remote' \in {remote, blocks["engine"]}
    /\ UNCHANGED <<present, blocks, job, faults, history>>

EngineFound(p) ==
    /\ job[p]["engine"] = NoJob /\ "engine" \in present
    /\ Goes(p, "engine", "session")
    /\ UNCHANGED <<disk, job, faults, history>>

\* fetch_cached_engine runs aws ...
EngineAsk(p) ==
    /\ proc[p] = "engine" /\ job[p]["engine"] = NoJob /\ "engine" \notin present
    /\ job' = SetJob(p, "engine", Ended("fetch"))
    /\ UNCHANGED <<disk, proc, faults, history>>

\* ... which puts the whole copy under the name by a rename,
EngineFetched(p) ==
    /\ job[p]["engine"].pc = "fetch" /\ remote # NoObject
    /\ present' = present \cup {"engine"}
    /\ blocks' = [blocks EXCEPT !["engine"] = remote]
    /\ job' = Retarget(SetJob(p, "engine", Exited(p, "ok")), "engine", "none")
    /\ proc' = IF Orphan(p) THEN proc ELSE [proc EXCEPT ![p] = "session"]
    /\ UNCHANGED <<remote, faults, history>>

\* ... or leaves nothing.
EngineNotFetched(p) ==
    /\ job[p]["engine"].pc = "fetch"
    /\ job' = SetJob(p, "engine", Exited(p, "compile"))
    /\ proc' = IF Orphan(p) THEN proc ELSE [proc EXCEPT ![p] = "compile"]
    /\ UNCHANGED <<disk, faults, history>>

\* There is no S3 cache to ask.
EngineMissing(p) ==
    /\ job[p]["engine"] = NoJob /\ "engine" \notin present
    /\ Goes(p, "engine", "compile")
    /\ job' = SetJob(p, "engine", Ended("compile"))
    /\ UNCHANGED <<disk, faults, history>>

CompileOpen(p) ==
    /\ job[p]["engine"].pc = "compile"
    /\ IF Whole("model")
       THEN Open(p, "engine", "engine")
       ELSE /\ Goes(p, "compile", "failed") /\ job' = SetJob(p, "engine", NoJob)
            /\ UNCHANGED <<disk, faults, history>>

\* out.write fails and nobody looks: the rest of the engine is missing.
CompileLosesWrite(p) ==
    /\ job[p]["engine"].pc = "writing" /\ Fault
    /\ job' = SetJob(p, "engine", Ended("closed"))
    /\ hurt' = hurt \cup {"engine"}
    /\ lost' = TRUE
    /\ UNCHANGED <<disk, proc>>

\* upload_engine, if there is an S3 cache and the upload succeeds.
CompileUpload(p) ==
    /\ job[p]["engine"].pc = "closed"
    /\ Goes(p, "compile", "session")
    /\ remote' \in {remote, blocks["engine"]}
    /\ job' = SetJob(p, "engine", Ended("ok"))
    /\ UNCHANGED <<present, blocks, faults, history>>

CreateSession(p) ==
    /\ Goes(p, "session", IF Whole("engine") THEN "up" ELSE "failed")
    /\ UNCHANGED <<disk, job, faults, history>>

\* TensorRT or the GPU refuses: no engine is built, no session created.
NativeFails(p) ==
    /\ \/ proc[p] = "compile" /\ job[p]["engine"].pc = "compile"
       \/ proc[p] = "session"
    /\ Fault
    /\ proc' = [proc EXCEPT ![p] = "failed"]
    /\ job' = SetJob(p, "engine", NoJob)
    /\ UNCHANGED <<disk, history>>

-----------------------------------------------------------------------------
\* The program is killed in the call; or its call has returned, and it exits.

Killed(p) == proc[p] \notin {"off", "failed", "up"} /\ Fault /\ Ends(p)

Exits(p, result) == proc[p] = result /\ Ends(p) /\ UNCHANGED faults

Thread(p) ==
    \/ \E n \in Download : DownloadCheck(p, n) \/ DownloadSize(p, n) \/ DownloadRename(p, n)
    \/ \E n \in Built : ScriptCheck(p, n)
    \/ VocabCheck(p) \/ CompileOpen(p)

Child(p) ==
    \/ \E n \in Download : DownloadOpen(p, n)
    \/ \E n \in Built : ScriptOpen(p, n)
    \/ \E n \in Final : Write(p, n)
    \/ EngineFetched(p) \/ EngineNotFetched(p)

Main(p) ==
    \/ Start(p) \/ JoinOk(p) \/ JoinErr(p) \/ RemoveRaw(p)
    \/ LoadFiles(p) \/ EngineFound(p) \/ EngineAsk(p) \/ EngineMissing(p)
    \/ CompileUpload(p) \/ CreateSession(p)

Faulty(p) ==
    \/ PythonFails(p) \/ Killed(p) \/ CompileLosesWrite(p) \/ NativeFails(p)
    \/ \E n \in Download : DownloadRetry(p, n) \/ DownloadFails(p, n)
    \/ \E n \in Built : ScriptFails(p, n)

Step ==
    \E p \in Proc : \/ Thread(p) \/ Child(p) \/ Main(p) \/ Faulty(p)
                    \/ Exits(p, "failed") \/ Exits(p, "up")

\* History: two calls, or what is left of them, provide the same file.
AtWork == {"fetch", "compile", "writing", "closed", "sized"}
Clashing(jobs) ==
    {n \in Final : \E p, q \in Proc :
        p # q /\ jobs[p][n].pc \in AtWork /\ jobs[q][n].pc \in AtWork}

Mixes == mixed' = mixed \cup Clashing(job')

Next == Step /\ Mixes

Spec == Init /\ [][Next]_vars

\* Programs, threads and children run, orphans too; a program that has failed is
\* started again.
Runs(p) == Thread(p) \/ Child(p) \/ Main(p) \/ Exits(p, "failed")
Fairness == \A p \in Proc : WF_vars(Runs(p) /\ Mixes)

FairSpec == Spec /\ Fairness

-----------------------------------------------------------------------------
\* Every variable holds a value of its type.
TypeOK ==
    /\ present \subseteq Path
    /\ blocks \in [Path -> SUBSET Block]
    /\ \A f \in Path \ present : blocks[f] = {}
    /\ remote \in {NoObject} \cup SUBSET Block
    /\ proc \in [Proc -> {"off", "download", "build", "clean", "load", "engine",
                          "compile", "session", "up", "failed"}]
    /\ job \in [Proc -> [Final ->
          [pc : AtWork \cup {"idle", "check", "ok", "err"},
           fd : Path \cup {"none"}, todo : SUBSET Block]]]
    /\ faults \in 0..MaxFaults
    /\ hurt \subseteq Final /\ lost \in BOOLEAN /\ mixed \subseteq Final

\* "Uses temp file + atomic rename to prevent partial/corrupt cache entries"
\* (download_hf_file): a downloaded file under its own name is whole.
DownloadsAreWhole == \A n \in Download : n \in present => Whole(n)

\* A downloaded file under its own name is whole, wherever programs are killed,
\* children fail, go on as orphans or start again, unless what is left of one
\* call has been downloading that file at the same time as another call.
PartialOnlyIfMixed == \A n \in Download \ mixed : n \in present => Whole(n)

Writing(n) == \E q \in Proc : job[q][n].pc = "writing"

\* Once ensure_model has returned, everything it promises is there.  A file that
\* is not whole was left half-written by a script or a killed program, is still
\* being written by an orphan (the scripts write in place, and what is not empty
\* counts as cached), or two calls have worked on it at the same time.
ReadyIsComplete ==
    \A p \in Proc : proc[p] \in {"load", "engine", "compile", "session", "up"} =>
        /\ \A n \in {"tokenizer", "config"} \ mixed : Whole(n)
        /\ \A n \in Built \ mixed :
             n \in present /\ (n \in hurt \/ Writing(n) \/ Whole(n))

\* A truncated engine reaches the S3 cache, and with it other machines, only
\* if a write to it was lost: a program killed while it compiles uploads
\* nothing, and what it leaves behind is never uploaded later.
RemoteDamageIsALostWrite == remote \notin {NoObject, Block} => lost

\* No start and no orphan ever destroys what has once been finished, unless two
\* calls have worked on that file at the same time.  (model.onnx is not in the
\* list: the export runs again when any other file is missing.)
FinishedWorkStays ==
    [][\A n \in {"tokenizer", "config", "vocab", "engine"} :
         Whole(n) => Whole(n)' \/ n \in mixed']_vars

\* A file has been left half-written, and the checks take it for finished.
\* (A damaged config.json does not matter, see LoadFiles.)
Stuck ==
    \E n \in Final \ {"config"} :
      /\ ~Whole(n) /\ ~Writing(n)
      /\ IF n = "engine" THEN n \in present ELSE Nonempty(n)

\* Whatever temporary, empty or left-over files and orphans the faults leave,
\* the program comes up again and again as long as it is started again, or else
\* one of the files has been left half-written for good.
ComesUpAgain == []<>(\E p \in Proc : proc[p] = "up") \/ <>[]Stuck
=============================================================================
