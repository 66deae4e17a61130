---------------------------- MODULE BlockDevice ----------------------------
(***************************************************************************)
(* What block devices promise their callers (devices/block.h): a read or a *)
(* write of a sector takes effect at one instant between call and return,  *)
(* whatever other threads call meanwhile.                                  *)
(***************************************************************************)
CONSTANTS Thread, Disk, Sector, Data, NULL

Request ==
  [op : {"read"}, disk : Disk, sector : Sector]
    \cup [op : {"write"}, disk : Disk, sector : Sector, data : Data]

VARIABLES
  contents,  \* contents[d][s]: what sector s of disk d holds
  call,      \* each thread's request, or NULL
  served,    \* the threads whose request has taken effect
  result     \* what a thread's read has returned, or NULL

dvars == <<contents, call, served, result>>

DiskInit ==
  /\ contents \in [Disk -> [Sector -> Data]]
  /\ call = [t \in Thread |-> NULL]
  /\ served = {}
  /\ result = [t \in Thread |-> NULL]

Invoke(t, r) ==
  /\ call[t] = NULL
  /\ call' = [call EXCEPT ![t] = r]
  /\ UNCHANGED <<contents, served, result>>

Serve(t) ==
  /\ call[t] # NULL /\ t \notin served
  /\ served' = served \cup {t}
  /\ LET r == call[t] IN
       \/ /\ r.op = "read"
          /\ result' = [result EXCEPT ![t] = contents[r.disk][r.sector]]
          /\ UNCHANGED contents
       \/ /\ r.op = "write"
          /\ contents' = [contents EXCEPT ![r.disk][r.sector] = r.data]
          /\ UNCHANGED result
  /\ UNCHANGED call

Return(t) ==
  /\ t \in served
  /\ call' = [call EXCEPT ![t] = NULL]
  /\ served' = served \ {t}
  /\ result' = [result EXCEPT ![t] = NULL]
  /\ UNCHANGED contents

DiskNext ==
  \E t \in Thread :
    (\E r \in Request : Invoke(t, r)) \/ Serve(t) \/ Return(t)

DiskSpec == DiskInit /\ [][DiskNext]_dvars

=============================================================================
