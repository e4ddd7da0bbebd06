---------------------------- MODULE AtomicStore ----------------------------
(***************************************************************************)
(* What the processors rely on of the job store: an update changes one job *)
(* of the memory image and, unless it rejects, makes the whole image       *)
(* durable in the same instant; a restart falls back to the durable image. *)
(***************************************************************************)
CONSTANTS Ids, Absent

VARIABLES
  jobs,  \* the image the processors read and write
  file   \* the durable image

Init == jobs = [id \in Ids |-> Absent] /\ file = [id \in Ids |-> Absent]

Update(id) ==
  /\ jobs' = [jobs EXCEPT ![id] = jobs'[id]]
  /\ file' \in {file, jobs'}

Reload == jobs' = file /\ UNCHANGED file

Next == (\E id \in Ids : Update(id)) \/ Reload

Spec == Init /\ [][Next]_<<jobs, file>>
=============================================================================
