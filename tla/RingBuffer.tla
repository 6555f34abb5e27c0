----------------------------- MODULE RingBuffer -----------------------------
(***************************************************************************)
(* ring_buffer<T> of svslib/filesubsystem.h: the window over the last      *)
(* bytes, or hashes, that the signature and delta algorithms look at.  A   *)
(* ring buffer is a record of the class's three members; T* buffer is a    *)
(* sequence, so the C++ index i is the TLA+ index i + 1.                   *)
(***************************************************************************)
EXTENDS Integers, Sequences

CONSTANT Uninit      \* what `new T[sz]' leaves in a cell: no value pushed

\* init(sz); the constructor allocates nothing
init(sz) == [buffer |-> [i \in 1 .. sz |-> Uninit], bufsz |-> sz, ptr |-> 0]

\* The value that the next push overwrites and returns
oldest(r) == r.buffer[r.ptr + 1]

push(r, x) ==
  [r EXCEPT !.buffer[r.ptr + 1] = x,
            !.ptr = IF r.ptr + 1 = r.bufsz THEN 0 ELSE r.ptr + 1]

\* True whenever the pointer has wrapped - also for a buffer never pushed to
full(r) == r.ptr = 0

\* The runs that serialize hands to its callback, one after the other
serialize(r) ==
  IF r.ptr = 0 THEN r.buffer
  ELSE SubSeq(r.buffer, r.ptr + 1, r.bufsz) \o SubSeq(r.buffer, 1, r.ptr)
=============================================================================
