--------------------------- MODULE MCDamagedStream ---------------------------
(* Instance of DamagedStream for TLC: a stream of three bytes in two chunks,  *)
(* and every sequence of up to four frames transport can make of it.         *)
EXTENDS DamagedStream

MCSealed ==
  << SealChunk([lo |-> 0, hi |-> 2], 0), SealChunk([lo |-> 2, hi |-> 3], 1), SealEOF(3, 2) >>

\* A frame that does not open is as good as any other of its length.
MCArriving ==
  {MCSealed[i] : i \in 1..3}
    \cup {[MCSealed[i] EXCEPT !.state = "bad"] : i \in {1, 3}}
    \cup {[MCSealed[1] EXCEPT !.state = "torn"]}

MCMaxFrames == 4

MCWhole == UNION {[1..n -> MCArriving] : n \in 0..MCMaxFrames}

MCCut ==
  {Append(w, [MCSealed[i] EXCEPT !.state = "cut"]) :
     w \in {v \in MCWhole : Len(v) < MCMaxFrames - 1}, i \in 1..3}

MCWires == MCWhole \cup MCCut
=============================================================================
