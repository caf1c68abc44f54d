------------------------------ MODULE GfDownload ------------------------------
(***************************************************************************)
(* gfclient_download and workload of pr1/mtgf: the client that asks for    *)
(* the paths of a workload in turn and keeps each answer in a file of its  *)
(* own, in directories it makes.  The gfclient library is object code:     *)
(* Perform does what gfclient.h says of gfc_perform.                       *)
(*                                                                         *)
(* A path is the sequence of its components, and a component a tuple: its  *)
(* name and, as in a local path, a number behind it.  Paths begin with a   *)
(* slash and fit the 256 characters of workload_init.                      *)
(***************************************************************************)
EXTENDS Integers, Sequences, Functions, SequencesExt

CONSTANTS
    Workloads,    \* sequences of paths, or Missing
    Missing,      \* there is no workload file
    Disks,        \* what the current directory may hold before
    NRequests     \* -r: 5 by default

VARIABLES
    file,         \* the workload file
    workload,     \* gWorkloadPathArray
    counter,      \* of workload.c: paths given
    made,         \* the counter of localPath
    pc,           \* label
    local,        \* local_path, of which localPath numbers the last component
    disk,         \* from local paths to what is there
    ended         \* the requests that have ended, for the property

vars == <<file, workload, counter, made, pc, local, disk, ended>>

Statuses == {"OK", "FILE_NOT_FOUND", "ERROR", "INVALID"}

Init ==
    /\ file \in Workloads
    /\ workload = << >>
    /\ counter = 0
    /\ made = 0
    /\ pc = "load"
    /\ local = << >>
    /\ disk \in Disks
    /\ ended = << >>

LoadWorkload ==
    /\ pc = "load"
    /\ IF file = Missing THEN pc' = "exit" /\ UNCHANGED workload
                         ELSE pc' = "request" /\ workload' = file
    /\ UNCHANGED <<file, counter, made, local, disk, ended>>

\* The path that is asked for: in sequence, then again from the first.
WorkloadPath(entry) == workload[1 + (entry % Len(workload))]

\* Variant for mutation: a file is named as its path.
UnnumberedPath(path, number) == path

LocalPath(path, number) == Append(Front(path), Append(Last(path), number))

\* The remainder of a division by no paths at all is a fault.
Request ==
    /\ pc = "request"
    /\ Len(ended) < NRequests
    /\ counter' = counter + 1
    /\ IF workload = << >>
       THEN pc' = "crash" /\ UNCHANGED <<made, local>>
       ELSE /\ local' = LocalPath(WorkloadPath(counter), made)
            /\ made' = made + 1
            /\ pc' = "open"
    /\ UNCHANGED <<file, workload, disk, ended>>

Directory    == [of |-> << >>, part |-> "directory"]
Empty(path)  == [of |-> path, part |-> "none"]
IsFile(p)    == p \in DOMAIN disk /\ disk[p] # Directory
Above(p, n)  == {SubSeq(p, 1, k) : k \in 1 .. n}
WithDirectories(n) ==
    [p \in Above(local, n) \cup DOMAIN disk |-> IF p \in DOMAIN disk THEN disk[p] ELSE Directory]

\* mkdir finds no fault with a file where a directory should be, and the call
\* below it then does.  Each may also fail for want of room or of a right.
OpenFile ==
    /\ pc = "open"
    /\ \E n \in 0 .. Len(local) - 1 :
          /\ \A p \in Above(local, n - 1) : ~IsFile(p)
          /\ \/ /\ disk' = WithDirectories(n)
                /\ pc' = "exit"
             \/ /\ n = Len(local) - 1
                /\ \A p \in Above(local, n) : ~IsFile(p)
                /\ local \in DOMAIN disk => IsFile(local)
                /\ disk' = [p \in {local} \cup DOMAIN WithDirectories(n) |->
                               IF p = local THEN Empty(WorkloadPath(counter - 1))
                               ELSE WithDirectories(n)[p]]
                /\ pc' = "perform"
    /\ UNCHANGED <<file, workload, counter, made, local, ended>>

\* What gfc_perform returns, the status, and how much of the file has come.
Outcomes ==
    {o \in [returned : {0, -1}, status : Statuses, part : {"none", "some", "whole"}] :
        o.part = "whole" <=> o.returned = 0 /\ o.status = "OK"}

\* A disk that is full keeps less, which writecb does not notice.
Perform ==
    /\ pc = "perform"
    /\ \E o \in Outcomes, full \in BOOLEAN :
          LET part == IF full /\ o.part = "whole" THEN "some" ELSE o.part
              kept == [disk EXCEPT ![local].part = part]
          IN /\ disk' = IF o.returned < 0 \/ o.status # "OK"
                        THEN Restrict(disk, DOMAIN disk \ {local})
                        ELSE kept
             /\ ended' = Append(ended,
                   [path |-> WorkloadPath(counter - 1), local |-> local,
                    got  |-> IF o.part # "whole" THEN "failed" ELSE part])
    /\ pc' = "request"
    /\ UNCHANGED <<file, workload, counter, made, local>>

Next == LoadWorkload \/ Request \/ OpenFile \/ Perform

Spec == Init /\ [][Next]_vars
-----------------------------------------------------------------------------
(* Properties.                                                              *)

TypeOK ==
    /\ file \in Workloads
    /\ workload \in {<< >>, file}
    /\ counter \in 0 .. NRequests
    /\ made \in {counter, counter - 1}
    /\ pc \in {"load", "request", "open", "perform", "exit", "crash"}
    /\ pc = "perform" => IsFile(local)
    /\ Len(ended) \in {counter, counter - 1}

\* Each request that succeeded has its whole answer in the file it was given, and
\* one that failed has left no file: no later request, for the same path or one
\* below it, takes away, truncates or overwrites what an earlier has downloaded.
\* With a disk that is full the file is there, but its end may be missing.
DownloadsKept ==
    \A i \in DOMAIN ended :
        LET r == ended[i] IN
        CASE r.got = "failed" -> ~IsFile(r.local)
          [] r.got = "some"   -> IsFile(r.local)
          [] r.got = "whole"  -> IsFile(r.local)
                                 /\ disk[r.local] = [of |-> r.path, part |-> "whole"]

\* Why it holds: the last component of a local path ends in the number of its request,
\* and only a request changes what is at its own local path.
IsSequence(s) == Len(s) \in Nat /\ s = [i \in 1 .. Len(s) |-> s[i]]

Paths  == UNION {{w[i] : i \in DOMAIN w} : w \in Workloads}
Locals == {LocalPath(p, n) : p \in Paths, n \in 0 .. NRequests}

Numbered ==
    /\ ended \in Seq([path : Paths, local : Locals, got : {"failed", "some", "whole"}])
    /\ \A i \in 1 .. Len(ended) : ended[i].local = LocalPath(ended[i].path, i - 1)

DownloadInv ==
    /\ file \in Workloads /\ workload \in Workloads \cup {<< >>} /\ counter \in Nat
    /\ Numbered /\ DownloadsKept
    /\ pc \in {"load", "request"} => made = Len(ended)
    /\ pc \in {"open", "perform"} =>
          /\ workload # << >> /\ counter # 0 /\ Len(ended) < NRequests
          /\ made = Len(ended) + 1 /\ local = LocalPath(WorkloadPath(counter - 1), Len(ended))
    /\ pc = "perform" => local \in DOMAIN disk /\ disk[local] = Empty(WorkloadPath(counter - 1))
=============================================================================
