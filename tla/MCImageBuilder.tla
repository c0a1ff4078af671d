-------------------------- MODULE MCImageBuilder --------------------------
(* Files of at most 24 bytes, a few structures of one or two bytes each.   *)
EXTENDS ImageBuilder

(* Sections that follow each other; overlap in the file; lie past its end; *)
(* start at a pointer that is rounded to 0; and none.                      *)
MCTables ==
  << <<>>,
     << [va |-> 12, vs |-> 4, raw |-> 2, ptr |-> 10] >>,
     << [va |-> 12, vs |-> 3, raw |-> 2, ptr |-> 10], [va |-> 16, vs |-> 4, raw |-> 4, ptr |-> 12] >>,
     << [va |-> 12, vs |-> 4, raw |-> 4, ptr |-> 12], [va |-> 16, vs |-> 4, raw |-> 2, ptr |-> 10] >>,
     << [va |-> 12, vs |-> 0, raw |-> 4, ptr |-> 11], [va |-> 15, vs |-> 4, raw |-> 9, ptr |-> 10] >>,
     << [va |-> 12, vs |-> 4, raw |-> 4, ptr |-> 1], [va |-> 16, vs |-> 4, raw |-> 4, ptr |-> 22] >>,
     << [va |-> 12, vs |-> 8, raw |-> 4, ptr |-> 8], [va |-> 20, vs |-> 2, raw |-> 0, ptr |-> 0] >> >>

MCNewHeaders == << [lfanew |-> 3, optional |-> 3], [lfanew |-> 1, optional |-> 3],
                   [lfanew |-> 2, optional |-> 2], [lfanew |-> 3, optional |-> 4] >>

(* Physical and virtual sizes: files cut short in a directory, in the      *)
(* section table and in a section; and with an overlay.                    *)
MCExtents == << <<24, 0>>, <<16, 0>>, <<8, 9>>, <<9, 12>>, <<13, 0>>, <<6, 8>> >>

MCHeaderSizes == << 10, 8 >>

Pick(list, i, stride) == list[1 + ((i \div stride) % Len(list))]

MCCount == Len(MCTables) * Len(MCNewHeaders) * Len(MCExtents) * Len(MCHeaderSizes)

MCCatalog ==
  [n \in 1..MCCount |->
    LET i == n - 1
        table == Pick(MCTables, i, 1)
        new == Pick(MCNewHeaders, i, 7)
        extent == Pick(MCExtents, i, 28)
    IN  [phys |-> extent[1], virt |-> extent[2], stream |-> i % 5 = 0, bad |-> "none",
         lfanew |-> new.lfanew, optional |-> new.optional, dirs |-> 1 + (i % 2),
         sections |-> table, sizeOfHeaders |-> Pick(MCHeaderSizes, i, 168),
         align |-> 4, fileAlign |-> 2]]

(* Files for reloads: two sections, one and none; any may be broken.       *)
MCFewFiles ==
  LET Plain(i) == [MCCatalog[i] EXCEPT !.phys = 24, !.virt = 0, !.stream = FALSE, !.dirs = 1]
  IN  << [Plain(3) EXCEPT !.stream = TRUE], Plain(2), Plain(1), [Plain(9) EXCEPT !.phys = 9],
         [Plain(3) EXCEPT !.bad = "dos"], [Plain(3) EXCEPT !.bad = "signature"],
         [Plain(3) EXCEPT !.bad = "magic"] >>

MCBaseOptions ==
  [memory |-> FALSE, virtualHeaders |-> FALSE, validate |-> TRUE, eager |-> FALSE,
   sections |-> TRUE, buffers |-> TRUE, overlay |-> TRUE]

MCOptions ==
  { [MCBaseOptions EXCEPT !.memory = m, !.virtualHeaders = v] : m, v \in BOOLEAN }

MCReloadOptions ==
  { MCBaseOptions, [MCBaseOptions EXCEPT !.eager = TRUE],
    [MCBaseOptions EXCEPT !.sections = FALSE],
    [MCBaseOptions EXCEPT !.buffers = FALSE, !.overlay = FALSE, !.validate = FALSE] }

MCBuilds ==
  { [start |-> 0, virtualParts |-> FALSE, fillGaps |-> TRUE],
    [start |-> 3, virtualParts |-> TRUE, fillGaps |-> TRUE],
    [start |-> 0, virtualParts |-> FALSE, fillGaps |-> FALSE] }

(* Every file is loaded once; the few ones twice, one by another.          *)
MCAllFiles == MCCatalog \o MCFewFiles

MCAllOptions == MCOptions \cup MCReloadOptions

MCMaxLoads ==
  [p \in (1..Len(MCAllFiles)) \X MCAllOptions |->
     IF p[1] <= MCCount THEN IF p[2] \in MCOptions THEN 1 ELSE 0
     ELSE IF p[2] \in MCReloadOptions THEN 2 ELSE 0]

=============================================================================
