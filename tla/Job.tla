--------------------------------- MODULE Job ---------------------------------
(***************************************************************************)
(* A job as a pool sends it and as class Job keeps it: src/src/net/Job.cpp *)
(* and JobId.h.  The module has no variables.                              *)
(*                                                                         *)
(* A text of the pool is a record: how many characters it has, whether all *)
(* of them are hex digits, and what it says.  HalfMax and WordMax stand    *)
(* for 0xFFFFFFFF and 0xFFFFFFFFFFFFFFFF.                                  *)
(***************************************************************************)
EXTENDS Integers

CONSTANTS HalfMax, WordMax, \* the largest 32-bit and 64-bit number, scaled
          Leftovers         \* what bytes that were never written may hold

ASSUME JobAssumption ==
    /\ HalfMax \in Nat /\ WordMax \in Nat
    /\ WordMax + 1 = (HalfMax + 1) * (HalfMax + 1)
    /\ Leftovers # {}

IdSize   == 64      \* sizeof(JobId::m_data)
BlobSize == 84      \* sizeof(Job::m_blob)
MinBlob  == 76

\* JobId::setId: the terminating zero must fit.
setId(id) == id.len < IdSize

\* Mutant of setBlob: a blob may fill the whole buffer.
setBlob_NoRoom(blob) ==
    /\ blob.len % 2 = 0
    /\ blob.len \div 2 >= MinBlob /\ blob.len \div 2 <= BlobSize
    /\ blob.hex

\* Job::setBlob
setBlob(blob) ==
    /\ blob.len % 2 = 0
    /\ blob.len \div 2 >= MinBlob /\ blob.len \div 2 < BlobSize
    /\ blob.hex

toDiff(target) == WordMax \div target

\* The numbers fromHex may read from a buffer of `size` characters into which
\* `len` were copied: digits that were never written may be digits or not.
Read(text, size, max) ==
    IF text.len = size THEN (IF text.hex THEN {text.value} ELSE {0}) ELSE 0 .. max

\* The 32 bits of a short target are scaled to 64.
FromHalf(tmp) == WordMax \div (HalfMax \div tmp)

\* Job::setTarget: the values m_target may get; 0 where it returns false.
setTarget(text) ==
    IF text.len <= 8 THEN {IF tmp = 0 THEN 0 ELSE FromHalf(tmp) : tmp \in Read(text, 8, HalfMax)}
    ELSE IF text.len <= 16 THEN Read(text, 16, WordMax)
    ELSE {0}

(***************************************************************************)
(* Client::parseJob up to the comparison with the current job: the error   *)
(* code, or the job.  The bytes of m_blob behind the blob are what they    *)
(* were (rest), and operator== compares them too.                          *)
(***************************************************************************)
Refused(code) == [code |-> code]

Made(params, nicehash, target, rest) ==
    [code |-> 0, id |-> params.id.name, blob |-> params.blob.data,
     size |-> params.blob.len \div 2, rest |-> rest, target |-> target,
     diff |-> toDiff(target) % (HalfMax + 1),
     nicehash |-> nicehash \/ params.blob.nonce # 0]

parseParams(params, nicehash) ==
    IF ~params.object THEN {Refused(2)}
    ELSE IF ~setId(params.id) THEN {Refused(3)}
    ELSE IF ~setBlob(params.blob) THEN {Refused(4)}
    ELSE {IF t = 0 THEN Refused(5) ELSE Made(params, nicehash, t, r) :
             t \in setTarget(params.target), r \in Leftovers}

\* Job::operator==
SameJob(a, b) ==
    /\ a.code = 0 /\ b.code = 0
    /\ a.id = b.id
    /\ <<a.blob, a.size, a.rest>> = <<b.blob, b.size, b.rest>>

=============================================================================
