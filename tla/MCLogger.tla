------------------------------- MODULE MCLogger -------------------------------
(***************************************************************************)
(* Small instances of Logger, and the closed form of CircularBuffer's      *)
(* PutBlock checked against the loop of puts it stands for.                *)
(***************************************************************************)
EXTENDS Logger, SequencesExt

(* Every well-formed ring over two bytes, of sizes 1 to 3. *)
SmallRings ==
  UNION {{[size |-> s, currentSize |-> n, head |-> (k + n) % s, tail |-> k, data |-> d] :
            n \in 0 .. s, k \in 0 .. s - 1, d \in [0 .. s - 1 -> {"a", "b"}]} : s \in 1 .. 3}

ASSUME PutBlockIsTheLoop ==
  \A cb \in SmallRings : \A block \in BoundedSeq({"x", "y"}, cb.size - cb.currentSize) :
    PutBlock(cb, block) = FoldLeft(CircularBufferPut, cb, block)
=============================================================================
