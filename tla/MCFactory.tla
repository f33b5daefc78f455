------------------------------- MODULE MCFactory -------------------------------
(* Model-checking instance of Factory: two of three units of production are two goods *)
EXTENDS Factory

Desc(jit, ins, outs, maxTransit, leak, shrinks) ==
  [jit |-> jit, ins |-> ins, outs |-> outs, maxTransit |-> maxTransit, leak |-> leak, shrinks |-> shrinks]

(* Every control type; the demand buffers with stores that only grow *)
MCDescs == {Desc(1, 0, 1, 0, 0, TRUE), Desc(1, 2, 1, 2, 0, TRUE), Desc(1, 2, 0, 0, 0, TRUE), Desc(1, 1, 0, 0, 1, TRUE),
            Desc(2, 0, 1, 0, 0, FALSE), Desc(2, 1, 2, 0, 0, FALSE), Desc(2, 2, 0, 0, 0, FALSE)}
MCProducer == {Desc(2, 0, 1, 0, 0, FALSE)}
MCFields == {Desc(2, 1, 1, 0, 0, TRUE)}
MCLeak == {Desc(1, 1, 1, 2, 2, FALSE)}
=============================================================================
