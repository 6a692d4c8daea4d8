------------------------------- MODULE MCBoot -------------------------------
(***************************************************************************)
(* Boot on a machine of 12 frames of 4 bytes.  The first two frames stand  *)
(* for the first megabyte, the next two for the image.  The maps have up   *)
(* to three entries, one more than is kept, whose edges need not be frame  *)
(* edges: apart, overlapping, reaching or starting beyond the 32-bit space,*)
(* of other kinds, of two sizes, cut short by a zero size or by the length *)
(* of the map, and with sizes that wrap in the 48 addresses there are.  An *)
(* entry's size field is one byte, its head two.                           *)
(***************************************************************************)
EXTENDS Boot, FiniteSetsExt

Entry(size, kind, base, length) ==
  [size |-> size, kind |-> kind, base |-> base, length |-> length]

Usable == {Entry(3, 1, base, length) :
             base \in {0, 10, 16, 23}, length \in {0, 18, 27, 80}}
Others == {Entry(3, 2, 0, 48), Entry(0, 1, 6, 29), Entry(3, 1, 60, 16),
           Entry(5, 1, 45, 20), Entry(5, 1, 16, 27)}

Maps == {<<>>} \cup {<<e>> : e \in Usable \cup Others}
        \cup {<<e, f>> : e \in Usable \cup Others, f \in Usable}
        \cup {<<Entry(3, 1, 10, 18), e, Entry(3, 1, 30, 14)>> : e \in Usable}

(* The loader lays the entries out one after the other, from byte 4 on. *)
MapStart == 4
Ahead(map, i) == MapThenSumSet(LAMBDA k : map[k].size + SIZE_FIELD, 1 .. (i - 1))
Laid(map) ==
  [a \in {MapStart + Ahead(map, i) : i \in DOMAIN map} |->
     map[CHOOSE i \in DOMAIN map : a = MapStart + Ahead(map, i)]]

Given(map, memory, lower, upper) ==
  [magic |-> TRUE, addr |-> 1, mmap |-> TRUE, mmap_addr |-> MapStart,
   mmap_length |-> MapThenSumSet(LAMBDA k : map[k].size + SIZE_FIELD, DOMAIN map),
   entries |-> Laid(map), memory |-> memory, lower |-> lower, upper |-> upper]

Cut(given, n) == [given EXCEPT !.mmap_length = @ - n]

(* The last entry's size leads to itself (47), to the entry before (43),   *)
(* to the byte before or after that (42, 44), or to the start of memory    *)
(* (39).  The loader's length is that of entries of the usual size.        *)
Wrapped(map) ==
  [Given(map, FALSE, 0, 0) EXCEPT !.mmap_length = 4 * Len(map)]
WrappedInfos ==
  {Wrapped(<<Entry(size, 1, 16, 27)>>) : size \in {42, 44, 47}}
  \cup {Wrapped(<<Entry(3, kind, 10, 18), Entry(size, 1, 30, 14)>>) :
          kind \in {1, 2}, size \in {39, 42, 43, 44, 47}}

MCInfos ==
  WrappedInfos \cup
  {Given(map, FALSE, 0, 0) : map \in Maps}
  \cup {Cut(Given(<<Entry(3, 1, 10, 18), e>>, FALSE, 0, 0), n) : e \in Usable, n \in {2, 3}}
  \cup {[Given(<<>>, TRUE, 1, upper) EXCEPT !.mmap = FALSE] : upper \in {0, 5, 12}}
  \cup {[Given(<<Entry(3, 1, 10, 18)>>, TRUE, 1, 12) EXCEPT !.mmap_addr = far] :
          far \in {0, 16}}
  \cup {Given(<<>>, TRUE, 1, 12)}
  \cup {[Given(<<>>, FALSE, 0, 0) EXCEPT !.magic = FALSE]}
  \cup {[Given(<<>>, FALSE, 0, 0) EXCEPT !.addr = far] : far \in {0, 16}}

(* Beside ordinary RAM, one usable byte inside the last page of all. *)
LastPageInfos ==
  {Given(<<Entry(3, 1, 16, length), Entry(3, 1, 45, 1)>>, FALSE, 0, 0) :
     length \in {18, 27}}
=============================================================================
