------------------------------- MODULE MCMemory -------------------------------
(* init and one more process on 18 pages of two bytes: each needs seven pages *)
(* at least, so that every operation runs out of memory at each of its steps. *)
EXTENDS Memory

CONSTANTS p1, p2

MCGrows == {5, -3, -30}

Seg(vaddr, memsz, filesz, w) == [vaddr |-> vaddr, memsz |-> memsz, filesz |-> filesz, w |-> w]

(* Text and data, a page each; the same in the other order; sizes that wrap; *)
(* more bytes in the file than in memory.                                    *)
MCPrograms ==
  { <<Seg(0, 2, 2, FALSE), Seg(2, 1, 0, TRUE)>>, <<Seg(2, 2, 1, TRUE), Seg(0, 2, 2, FALSE)>>,
    <<Seg(2, UINT64 - 1, 0, TRUE)>>, <<Seg(0, 1, 2, FALSE)>> }

(* States that differ only in the numbers of the pages behave alike: of the  *)
(* pages that have one use each it matters which places have a page.         *)
Shape(pt) == [mid |-> {i \in 1..2 : pt.mid[i] # 0}, low |-> {i \in 1..4 : pt.low[i] # 0},
              leaf |-> [va \in Vas |-> [pt.leaf[va] EXCEPT !.pa = 0]]]
PageNumbersAside ==
  IF PagesConserved /\ MapsExactly
  THEN <<[p \in Procs |-> <<proc[p].used, proc[p].sz, proc[p].guard, Shape(proc[p].pt)>>], panicked>>
  ELSE <<free, proc, panicked>>
==============================================================================
