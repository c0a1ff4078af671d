---------------------------- MODULE MCImageSpace ----------------------------
(* Images of up to two sections in a 5-bit address space.                  *)
EXTENDS ImageSpace

(* A page of 4, a file page of 2, and a file that holds every section.     *)
MCLayouts == [align : {4}, fileAlign : {2}, sizeOfHeaders : {4}, fileSize : {31}]

MCHeaders == [va : {4, 8, 28}, vs : {0, 5}, raw : {0, 2, 6}, ptr : {1, 4, 6}]

(* A short file; a low alignment; and a section alignment that is no power *)
(* of two.                                                                 *)
MCOtherLayouts ==
  [align : {4}, fileAlign : {2}, sizeOfHeaders : {4}, fileSize : {9}]
  \cup [align : {2}, fileAlign : {2}, sizeOfHeaders : {4}, fileSize : {31}]
  \cup [align : {3}, fileAlign : {2}, sizeOfHeaders : {2}, fileSize : {31}]

MCOtherHeaders == [va : {4, 8, 28}, vs : {0, 5}, raw : {2, 6}, ptr : {1, 4}]

MCFewHeaders == [va : {4, 8}, vs : {0, 5}, raw : {2, 4}, ptr : {4}]

MCFewLayouts == [align : {4}, fileAlign : {2}, sizeOfHeaders : {4}, fileSize : {7, 15}]

(* Every file of up to two sections, loaded ...                            *)
MCLoadedFiles ==
  UNION {[headers : [1..n -> MCHeaders], layout : MCLayouts, edits : {0}]
           \cup [headers : [1..n -> MCOtherHeaders], layout : MCOtherLayouts, edits : {0}] : n \in 0..2}

(* ... and a few, edited twice.                                            *)
MCFiles ==
  MCLoadedFiles
  \cup UNION {[headers : [1..n -> MCFewHeaders], layout : MCFewLayouts, edits : {2}] : n \in 0..2}

MCSizes == {0, 7}

=============================================================================
