---------------------------- MODULE UnwindProofs -----------------------------
(***************************************************************************)
(* Proofs about the loaders of exception directories and about the counts   *)
(* of unwind data.                                                           *)
(***************************************************************************)
EXTENDS MCExceptions, TLAPS

-----------------------------------------------------------------------------
(***************************************************************************)
(* The counts of an .xdata record stay independent, for every size of the    *)
(* fields of its headers and every sequence of calls of the setters.         *)
(***************************************************************************)

CountsInv ==
    /\ baseEpilogs \in 0 .. MaxBaseEpilogs /\ baseWords \in 0 .. MaxBaseWords
    /\ extEpilogs \in Nat /\ extWords \in Nat
    /\ LeftBehind

\* Every header of a file is as CountsInv says.
LEMMA CountsInitially == CountsInit => CountsInv
  BY CountsAssumption DEF CountsInit, CountsInv, LeftBehind, has_extended_main_header

\* The setters keep CountsInv.
LEMMA CountsStep == CountsInv /\ [CountsNext]_countVars => CountsInv'
<1> SUFFICES ASSUME CountsInv, [CountsNext]_countVars PROVE CountsInv'
  OBVIOUS
<1> USE CountsAssumption DEF CountsInv, LeftBehind, has_extended_main_header
<1>1. CASE UNCHANGED countVars
  BY <1>1 DEF countVars
<1>2. ASSUME NEW count \in Counts, set_epilog_count(count) PROVE CountsInv'
  BY <1>2 DEF set_epilog_count, Put, get_code_words, get_epilog_count
<1>3. ASSUME NEW count \in Counts, set_code_words(count) PROVE CountsInv'
  BY <1>3 DEF set_code_words, Put, get_epilog_count, get_code_words
<1> QED
  BY <1>1, <1>2, <1>3 DEF CountsNext

\* A setter of a state that is as CountsInv says changes its count and no other.
LEMMA SettersKeep == CountsInv /\ [CountsNext]_countVars => [CountsKept]_countVars
<1> SUFFICES ASSUME CountsInv, [CountsNext]_countVars PROVE [CountsKept]_countVars
  OBVIOUS
<1> USE CountsAssumption
    DEF CountsInv, LeftBehind, has_extended_main_header, get_epilog_count, get_code_words
<1>1. ASSUME NEW count \in Counts, set_epilog_count(count) PROVE CountsKept
  BY <1>1 DEF set_epilog_count, Put, CountsKept
<1>2. ASSUME NEW count \in Counts, set_code_words(count) PROVE CountsKept
  BY <1>2 DEF set_code_words, Put, CountsKept
<1> QED
  BY <1>1, <1>2 DEF CountsNext

\* Setting one of the counts keeps the other, whichever headers they are in.
THEOREM CountsStayIndependent == CountsSpec => CountsIndependent
<1>1. CountsSpec => []CountsInv
  BY CountsInitially, CountsStep, PTL DEF CountsSpec
<1> QED
  BY <1>1, SettersKeep, PTL DEF CountsSpec, CountsIndependent

-----------------------------------------------------------------------------
(***************************************************************************)
(* The records of ARM and ARM64: for every directory, the codes of a record  *)
(* tile their area and the handler is found behind it.                       *)
(***************************************************************************)

ArmErrors ==
    {"invalid_runtime_function_entry", "invalid_extended_unwind_info", "unordered_epilog_scopes",
     "invalid_uwop_code", "invalid_exception_handler", "invalid_exception_handler_rva"}

ArmFunction ==
    [unwind : {"none", "packed", "record"}, scopes : Seq(Nat),
     codes : Seq([at : Nat, length : Nat]), handlerAt : Int, errors : SUBSET ArmErrors]

InRecord == {"header", "scopes", "codes", "handler", "undefined"}

\* The codes of a record, whether all of them are read or not.
ArmCodes(r, codes, errors) ==
    /\ InOrder(r, codes)
    /\ "invalid_uwop_code" \notin errors => Adjacent(r, codes) /\ Spelled(r, codes)

AreaEnds(r, codes) == BehindLast(r, codes) = CodesEnd(r) \/ Filled(r, codes)

\* What is true of a function once it is read.
ArmSettled(r, f) ==
    /\ f.handlerAt # -1 => f.handlerAt = CodesEnd(r)
    /\ f.unwind = "record" =>
        /\ ArmCodes(r, f.codes, f.errors)
        /\ \/ "invalid_extended_unwind_info" \in f.errors
           \/ AreaEnds(r, f.codes)

\* What is true of a record while it is read.
ArmTurn(pc, r, f, pos) ==
    /\ r.entry = "record" /\ f.unwind = "record" /\ f.handlerAt = -1
    /\ ArmCodes(r, f.codes, f.errors)
    /\ pc = "header" => f.codes = <<>> /\ f.scopes = <<>>
    /\ pc = "scopes" => /\ f.codes = <<>> /\ Len(f.scopes) <= ScopeCount(r)
                        /\ pos = HeaderSize(r) + WordSize * Len(f.scopes)
    /\ pc = "codes" =>
        /\ pos \in CodesBegin(r) .. CodesEnd(r)
        /\ \/ BehindLast(r, f.codes) = pos
           \/ pos = CodesEnd(r) /\ Filled(r, f.codes)
    /\ pc = "handler" => pos = CodesEnd(r) /\ AreaEnds(r, f.codes)

\* Where the walk over the entries stands.
ArmPlace ==
    /\ armPc \in {"directory", "entry", "end", "done"} \cup InRecord
    /\ armPc # "done" \/ armFunctions # <<>> => armDir \in ArmDirectoryType
    /\ armFunctions \in Seq(ArmFunction) /\ armPos \in Nat /\ armRva \in Nat
    /\ armPc = "directory" => armFunctions = <<>>
    /\ armPc \in {"directory", "entry"} => armRva = armDir.rva + EntrySize * Len(armFunctions)
    /\ armPc \in InRecord =>
        /\ armFunctions # <<>>
        /\ armRva = armDir.rva + EntrySize * (Len(armFunctions) - 1)
    /\ armFunctions # <<>> => Len(armFunctions) <= Len(armDir.entries)

ArmInv ==
    /\ ArmPlace
    /\ armPc \in InRecord => ArmTurn(armPc, RecordOf(Len(armFunctions)), Current, armPos)
    /\ \A i \in DOMAIN armFunctions :
        i < Len(armFunctions) \/ armPc \notin InRecord =>
            ArmSettled(RecordOf(i), armFunctions[i])

\* No codes are in order.
LEMMA NoCodes == ASSUME NEW r, NEW errors PROVE ArmCodes(r, <<>>, errors)
BY DEF ArmCodes, InOrder, Adjacent, Spelled

\* An error that is not of a code says nothing of the codes.
LEMMA CodesKeepOrder ==
    ASSUME NEW r, NEW codes, NEW errors, NEW more, ArmCodes(r, codes, errors),
           errors \subseteq more
    PROVE  ArmCodes(r, codes, more)
BY DEF ArmCodes

\* Sizes of the parts of a record.
LEMMA RecordSizes ==
    ASSUME NEW r \in RecordType
    PROVE  /\ HeaderSize(r) \in Nat /\ ScopeCount(r) \in Nat
           /\ CodesBegin(r) \in Nat /\ CodesEnd(r) \in Nat /\ CodesBegin(r) <= CodesEnd(r)
           /\ CodesBegin(r) = HeaderSize(r) + WordSize * ScopeCount(r)
<1>1. EpilogCount(r) \in Nat /\ CodeWords(r) \in Nat
  BY DEF RecordType, EpilogCount, CodeWords
<1>2. HeaderSize(r) \in Nat /\ ScopeCount(r) \in Nat
  BY <1>1 DEF HeaderSize, ScopeCount, WordSize
<1> QED
  BY <1>1, <1>2 DEF CodesBegin, CodesEnd, WordSize

\* The entry at a position.
LEMMA IndexAt ==
    ASSUME NEW begin \in Nat, NEW n \in Nat \ {0}, NEW rva, rva = begin + 8 * (n - 1)
    PROVE  (rva - begin) \div 8 + 1 = n
<1>1. rva - begin = 8 * (n - 1)
  OBVIOUS
<1> QED
  BY <1>1

\* The record that is read is that of the last function of the list.
LEMMA RecordIsLast ==
    ASSUME ArmInv, armPc \in InRecord
    PROVE  /\ Len(armFunctions) \in Nat \ {0} /\ Len(armFunctions) \in DOMAIN armFunctions
           /\ armDir \in ArmDirectoryType
           /\ Record = RecordOf(Len(armFunctions)) /\ Record \in RecordType
           /\ Current \in ArmFunction
           /\ ScopeCount(Record) <= Len(Record.offsets)
           /\ ArmTurn(armPc, Record, Current, armPos)
<1>1. /\ armFunctions \in Seq(ArmFunction) /\ armFunctions # <<>>
      /\ Len(armFunctions) <= Len(armDir.entries) /\ armDir \in ArmDirectoryType
      /\ armRva = armDir.rva + EntrySize * (Len(armFunctions) - 1)
  BY DEF ArmInv, ArmPlace
<1>2. Len(armFunctions) \in Nat \ {0} /\ Len(armFunctions) \in DOMAIN armFunctions
  BY <1>1
<1>3. armDir.rva \in Nat /\ armDir.entries \in Seq(RecordType)
  BY <1>1, ArmDirectoriesAssumption DEF ArmDirectoryType
<1>4. EntryIndex = Len(armFunctions)
  BY <1>1, <1>2, <1>3, IndexAt DEF EntryIndex, EntrySize
<1>5. EntryIndex \in DOMAIN armDir.entries
  BY <1>1, <1>2, <1>3, <1>4
<1>6. Record = RecordOf(Len(armFunctions)) /\ Record \in RecordType
  BY <1>3, <1>4, <1>5 DEF Record, RecordOf
<1>7. ArmTurn(armPc, Record, Current, armPos)
  BY <1>6 DEF ArmInv
<1>8. ScopeCount(Record) <= Len(Record.offsets)
  BY <1>1, <1>5, <1>7 DEF ArmDirectoryType, Record, ArmTurn
<1> QED
  BY <1>1, <1>2, <1>6, <1>7, <1>8 DEF Current

\* A step that changes the last function changes no other.
LEMMA LastUpdated ==
    ASSUME ArmInv, armPc \in InRecord, NEW f \in ArmFunction, UpdateCurrent(f)
    PROVE  /\ armFunctions' \in Seq(ArmFunction) /\ Len(armFunctions') = Len(armFunctions)
           /\ DOMAIN armFunctions' = DOMAIN armFunctions
           /\ armFunctions'[Len(armFunctions)] = f
           /\ \A i \in DOMAIN armFunctions :
                i < Len(armFunctions) => armFunctions'[i] = armFunctions[i]
<1>1. armFunctions \in Seq(ArmFunction) /\ Len(armFunctions) \in DOMAIN armFunctions
  BY RecordIsLast DEF ArmInv, ArmPlace
<1> QED
  BY <1>1 DEF UpdateCurrent

\* The record is done: its function is settled.
LEMMA RecordEnds ==
    ASSUME ArmInv, armPc \in InRecord, NEW f \in ArmFunction, UpdateCurrent(f),
           ArmSettled(Record, f), RecordDone, UNCHANGED <<armDir, armPos>>
    PROVE  ArmInv'
<1> DEFINE n == Len(armFunctions)
<1>1. /\ n \in Nat \ {0} /\ n \in DOMAIN armFunctions /\ armDir \in ArmDirectoryType
      /\ Record = RecordOf(n) /\ DOMAIN armFunctions = 1 .. n
  BY RecordIsLast DEF ArmInv, ArmPlace
<1>2. /\ armFunctions' \in Seq(ArmFunction) /\ Len(armFunctions') = n
      /\ DOMAIN armFunctions' = DOMAIN armFunctions /\ armFunctions'[n] = f
      /\ \A i \in DOMAIN armFunctions : i < n => armFunctions'[i] = armFunctions[i]
  BY LastUpdated
<1>3. armPc' = "entry" /\ armRva' = armRva + EntrySize /\ armDir' = armDir /\ armPos' = armPos
  BY DEF RecordDone
<1>4. armDir.rva \in Nat
  BY <1>1, ArmDirectoriesAssumption DEF ArmDirectoryType
<1>5. armRva' = armDir'.rva + EntrySize * Len(armFunctions')
  BY <1>1, <1>2, <1>3, <1>4 DEF ArmInv, ArmPlace, EntrySize
<1>6. ArmPlace'
  BY <1>1, <1>2, <1>3, <1>4, <1>5 DEF ArmInv, ArmPlace, EntrySize, InRecord
<1>7. \A i \in DOMAIN armFunctions' : ArmSettled(RecordOf(i)', armFunctions'[i])
  <2> TAKE i \in DOMAIN armFunctions'
  <2>1. RecordOf(i)' = RecordOf(i)
    BY <1>3 DEF RecordOf
  <2>2. CASE i = n
    BY <1>1, <1>2, <2>1, <2>2
  <2>3. CASE i < n
    BY <1>2, <2>1, <2>3 DEF ArmInv
  <2> QED
    BY <1>1, <1>2, <2>2, <2>3
<1> QED
  BY <1>3, <1>6, <1>7 DEF ArmInv, InRecord

\* The record goes on, in turn.
LEMMA RecordContinues ==
    ASSUME ArmInv, armPc \in InRecord, NEW f \in ArmFunction, UpdateCurrent(f),
           armPc' \in InRecord, armPos' \in Nat, ArmTurn(armPc', Record, f, armPos'),
           UNCHANGED <<armDir, armRva>>
    PROVE  ArmInv'
<1> DEFINE n == Len(armFunctions)
<1>1. /\ n \in Nat \ {0} /\ n \in DOMAIN armFunctions /\ armDir \in ArmDirectoryType
      /\ Record = RecordOf(n) /\ DOMAIN armFunctions = 1 .. n
  BY RecordIsLast DEF ArmInv, ArmPlace
<1>2. /\ armFunctions' \in Seq(ArmFunction) /\ Len(armFunctions') = n
      /\ DOMAIN armFunctions' = DOMAIN armFunctions /\ armFunctions'[n] = f
      /\ \A i \in DOMAIN armFunctions : i < n => armFunctions'[i] = armFunctions[i]
  BY LastUpdated
<1>3. \A i \in DOMAIN armFunctions : RecordOf(i)' = RecordOf(i)
  BY DEF RecordOf
<1>4. ArmPlace'
  BY <1>1, <1>2 DEF ArmInv, ArmPlace, InRecord
<1>5. \A i \in DOMAIN armFunctions' : i < n => ArmSettled(RecordOf(i)', armFunctions'[i])
  BY <1>2, <1>3 DEF ArmInv
<1>6. ArmTurn(armPc', armDir'.entries[n], armFunctions'[n], armPos')
  BY <1>1, <1>2 DEF RecordOf
<1> QED
  BY <1>2, <1>4, <1>5, <1>6 DEF ArmInv, Current, RecordOf

\* A step within a record that changes no function.
LEMMA FunctionKept ==
    ASSUME ArmInv, armPc \in InRecord, UNCHANGED armFunctions
    PROVE  UpdateCurrent(Current)
<1>1. armFunctions \in Seq(ArmFunction) /\ Len(armFunctions) \in DOMAIN armFunctions
  BY RecordIsLast DEF ArmInv, ArmPlace
<1> QED
  BY <1>1 DEF UpdateCurrent, Current

\* Errors of a function that is read; and a record that an error ends.
LEMMA ErrorsAdded ==
    ASSUME ArmInv, armPc \in InRecord, NEW errors \in SUBSET ArmErrors
    PROVE  LET f == WithErrors(errors) IN
           /\ f \in ArmFunction /\ f.errors = Current.errors \cup errors
           /\ f.scopes = Current.scopes /\ f.codes = Current.codes
           /\ f.handlerAt = -1 /\ f.unwind = "record"
BY RecordIsLast DEF WithErrors, ArmFunction, ArmTurn

LEMMA RecordFailed ==
    ASSUME ArmInv, armPc \in InRecord, NEW errors \in SUBSET ArmErrors, RecordFails(errors)
    PROVE  ArmInv'
<1> DEFINE f == WithErrors(errors \cup {"invalid_extended_unwind_info"})
<1>0. errors \cup {"invalid_extended_unwind_info"} \in SUBSET ArmErrors
  BY DEF ArmErrors
<1>1. /\ f \in ArmFunction /\ f.handlerAt = -1 /\ f.codes = Current.codes
      /\ f.errors = Current.errors \cup (errors \cup {"invalid_extended_unwind_info"})
  BY <1>0, ErrorsAdded
<1> HIDE DEF f
<1>2. ArmCodes(Record, f.codes, f.errors)
  <2>1. ArmCodes(Record, Current.codes, Current.errors)
    BY RecordIsLast DEF ArmTurn
  <2>2. Current.errors \subseteq f.errors
    BY <1>1
  <2> QED
    BY <1>1, <2>1, <2>2, CodesKeepOrder
<1>3. ArmSettled(Record, f)
  BY <1>1, <1>2 DEF ArmSettled
<1> QED
  BY <1>1, <1>3, RecordEnds DEF RecordFails, f

LEMMA HeaderInv == ASSUME ArmInv, Header PROVE ArmInv'
<1>1. /\ armPc = "header" /\ armPc \in InRecord /\ Record \in RecordType
      /\ ArmTurn(armPc, Record, Current, armPos) /\ Current \in ArmFunction
  BY RecordIsLast DEF Header, InRecord
<1>2. CASE CanRead(HeaderSize(Record))
  <2>1. /\ armPos' = HeaderSize(Record) /\ armPc' = "scopes"
        /\ UNCHANGED <<armDir, armRva, armFunctions>>
    BY <1>2 DEF Header
  <2>2. ArmTurn(armPc', Record, Current, armPos')
    BY <1>1, <2>1, RecordSizes DEF ArmTurn, WordSize
  <2> QED
    BY <1>1, <2>1, <2>2, FunctionKept, RecordContinues, RecordSizes DEF InRecord
<1>3. CASE ~CanRead(HeaderSize(Record))
  BY <1>1, <1>3, RecordFailed DEF Header
<1> QED
  BY <1>2, <1>3

LEMMA ScopeInv == ASSUME ArmInv, Scope PROVE ArmInv'
<1>1. /\ armPc = "scopes" /\ armPc \in InRecord /\ Record \in RecordType
      /\ ArmTurn(armPc, Record, Current, armPos) /\ Current \in ArmFunction
      /\ Len(Current.scopes) < ScopeCount(Record)
      /\ ScopeCount(Record) <= Len(Record.offsets)
  BY RecordIsLast DEF Scope, InRecord
<1>2. CASE CanRead(WordSize)
  <2> DEFINE scopes == Append(Current.scopes, Record.offsets[Len(Current.scopes) + 1])
             f == [Current EXCEPT !.scopes = scopes]
  <2>1. /\ UpdateCurrent(f) /\ armPos' = armPos + WordSize
        /\ UNCHANGED <<armDir, armPc, armRva>>
    BY <1>1, <1>2 DEF Scope, ArmFunction
  <2>2. Current.scopes \in Seq(Nat) /\ Record.offsets \in Seq(Nat)
    BY <1>1 DEF ArmFunction, RecordType
  <2>3. Len(Current.scopes) + 1 \in DOMAIN Record.offsets
    BY <1>1, <2>2, RecordSizes
  <2>4. scopes \in Seq(Nat) /\ Len(scopes) = Len(Current.scopes) + 1
    BY <2>2, <2>3
  <2>5. f \in ArmFunction
    BY <1>1, <2>4 DEF ArmFunction
  <2>6. /\ f.scopes = scopes /\ f.codes = Current.codes
        /\ f.unwind = Current.unwind /\ f.handlerAt = Current.handlerAt
        /\ f.errors = Current.errors
    BY <1>1 DEF ArmFunction
  <2> DEFINE m == Len(Current.scopes)
  <2>9. armPos = HeaderSize(Record) + 4 * m /\ m \in Nat /\ m < ScopeCount(Record)
    BY <1>1, <2>2 DEF ArmTurn, WordSize
  <2>7. armPos' = HeaderSize(Record) + WordSize * Len(scopes) /\ Len(scopes) <= ScopeCount(Record)
    <3>1. HeaderSize(Record) \in Nat /\ ScopeCount(Record) \in Nat /\ Len(scopes) = m + 1
      BY <1>1, <2>4, RecordSizes
    <3>2. armPos' = armPos + 4
      BY <2>1 DEF WordSize
    <3> HIDE DEF m, scopes
    <3> QED
      BY <2>9, <3>1, <3>2 DEF WordSize
  <2>8. ArmTurn(armPc', Record, f, armPos')
    BY <1>1, <2>1, <2>6, <2>7 DEF ArmTurn
  <2> QED
    BY <1>1, <2>1, <2>5, <2>8, RecordContinues DEF ArmInv, ArmPlace, WordSize
<1>3. CASE ~CanRead(WordSize)
  BY <1>1, <1>3, RecordFailed DEF Scope
<1> QED
  BY <1>2, <1>3

LEMMA ScopesReadInv == ASSUME ArmInv, ScopesRead PROVE ArmInv'
<1> DEFINE errors == IF Unordered(Current.scopes) THEN {"unordered_epilog_scopes"} ELSE {}
           f == WithErrors(errors)
<1>1. /\ armPc = "scopes" /\ armPc \in InRecord /\ Record \in RecordType
      /\ ArmTurn(armPc, Record, Current, armPos) /\ Current \in ArmFunction
      /\ Len(Current.scopes) = ScopeCount(Record)
      /\ UpdateCurrent(f) /\ armPc' = "codes" /\ UNCHANGED <<armDir, armRva, armPos>>
  BY RecordIsLast DEF ScopesRead, InRecord
<1>0. errors \in SUBSET ArmErrors
  BY DEF ArmErrors
<1>2. f \in ArmFunction /\ f.codes = <<>> /\ f.handlerAt = -1 /\ f.unwind = "record"
  BY <1>0, <1>1, ErrorsAdded DEF ArmTurn
<1>3. armPos = CodesBegin(Record)
  BY <1>1, RecordSizes DEF ArmTurn
<1>4. ArmTurn(armPc', Record, f, armPos')
  BY <1>1, <1>2, <1>3, RecordSizes, NoCodes DEF ArmTurn, BehindLast, EndOfCode
<1> QED
  BY <1>1, <1>2, <1>4, RecordContinues DEF ArmInv, ArmPlace, InRecord

\* While codes are left, those read so far end at the position; a zero byte has
\* not been there.
LEMMA CodesSoFar ==
    ASSUME ArmInv, CodesLeft
    PROVE  /\ armPc = "codes" /\ armPc \in InRecord /\ Record \in RecordType
           /\ Current \in ArmFunction /\ Current.unwind = "record" /\ Current.handlerAt = -1
           /\ Record.entry = "record"
           /\ armPos \in Nat /\ armPos < CodesEnd(Record) /\ CodesEnd(Record) \in Nat
           /\ armPos >= CodesBegin(Record) /\ CodesBegin(Record) \in Nat
           /\ ArmCodes(Record, Current.codes, Current.errors)
           /\ BehindLast(Record, Current.codes) = armPos
<1>1. armPc = "codes" /\ armPc \in InRecord /\ armPos < CodesEnd(Record)
  BY DEF CodesLeft, InRecord
<1>2. /\ Record \in RecordType /\ Current \in ArmFunction
      /\ ArmTurn(armPc, Record, Current, armPos)
  BY <1>1, RecordIsLast
<1>3. CodesEnd(Record) \in Nat /\ CodesBegin(Record) \in Nat /\ armPos \in Nat
  BY <1>2, RecordSizes DEF ArmInv, ArmPlace
<1> QED
  BY <1>1, <1>2, <1>3 DEF ArmTurn

LEMMA CodeUnreadInv == ASSUME ArmInv, CodeUnread PROVE ArmInv'
BY CodesSoFar, RecordFailed DEF CodeUnread

LEMMA FillerInv == ASSUME ArmInv, Filler PROVE ArmInv'
<1>1. /\ CodesLeft /\ CodeByte(Record, armPos) = Zero /\ armPos' = CodesEnd(Record)
      /\ UNCHANGED <<armDir, armPc, armRva, armFunctions>>
  BY DEF Filler
<1>2. Filled(Record, Current.codes)
  BY <1>1, CodesSoFar DEF Filled
<1>3. ArmTurn(armPc', Record, Current, armPos')
  BY <1>1, <1>2, CodesSoFar DEF ArmTurn
<1> QED
  BY <1>1, <1>3, CodesSoFar, FunctionKept, RecordContinues

\* The bytes behind the first of a code: it fits, or ends the record.  The
\* list is as it was but for its last code, which begins at the position.
LEMMA RestReadInv ==
    ASSUME ArmInv, CodesLeft, NEW codes \in Seq([at : Nat, length : Nat]), codes # <<>>,
           NEW length \in Nat, NEW errors \in SUBSET ArmErrors,
           RestRead(codes, length, errors),
           LET filled == [codes EXCEPT ![Len(codes)] = [at |-> armPos, length |-> length]]
           IN  /\ ArmCodes(Record, filled, Current.errors \cup errors)
               /\ InOrder(Record, filled)
    PROVE  ArmInv'
<1> DEFINE filled == [codes EXCEPT ![Len(codes)] = [at |-> armPos, length |-> length]]
           wrong == errors \cup {"invalid_uwop_code", "invalid_extended_unwind_info"}
<1>1. filled \in Seq([at : Nat, length : Nat]) /\ Len(filled) = Len(codes) /\ Len(codes) \in Nat \ {0}
      /\ filled[Len(codes)] = [at |-> armPos, length |-> length]
  BY CodesSoFar
<1>2. wrong \in SUBSET ArmErrors
  BY DEF ArmErrors
<1>3. BehindLast(Record, filled) = armPos + length
  BY <1>1 DEF BehindLast, EndOfCode
<1>4. CASE armPos + length <= CodesEnd(Record) /\ CanRead(length)
  <2> DEFINE f == [WithErrors(errors) EXCEPT !.codes = filled]
  <2>1. /\ UpdateCurrent(f) /\ armPos' = armPos + length
        /\ UNCHANGED <<armDir, armPc, armRva>>
    BY <1>4 DEF RestRead
  <2>2. WithErrors(errors) \in ArmFunction /\ WithErrors(errors).errors = Current.errors \cup errors
        /\ WithErrors(errors).handlerAt = -1 /\ WithErrors(errors).unwind = "record"
    BY CodesSoFar, ErrorsAdded
  <2>3. /\ f \in ArmFunction /\ f.errors = Current.errors \cup errors /\ f.codes = filled
        /\ f.handlerAt = -1 /\ f.unwind = "record"
    BY <1>1, <2>2 DEF ArmFunction
  <2>4. ArmCodes(Record, f.codes, f.errors)
    BY <2>3
  <2>5. armPos' \in CodesBegin(Record) .. CodesEnd(Record) /\ armPos' \in Nat
    BY <1>4, <2>1, CodesSoFar
  <2>6. ArmTurn(armPc', Record, f, armPos')
    BY <1>3, <2>1, <2>3, <2>4, <2>5, CodesSoFar DEF ArmTurn
  <2> QED
    BY <2>1, <2>3, <2>5, <2>6, CodesSoFar, RecordContinues
<1>5. CASE ~(armPos + length <= CodesEnd(Record) /\ CanRead(length))
  <2> DEFINE f == [WithErrors(wrong) EXCEPT !.codes = filled]
  <2>1. UpdateCurrent(f) /\ RecordDone /\ UNCHANGED <<armDir, armPos>>
    BY <1>5 DEF RestRead
  <2>2. WithErrors(wrong) \in ArmFunction /\ WithErrors(wrong).errors = Current.errors \cup wrong
        /\ WithErrors(wrong).handlerAt = -1
    BY <1>2, CodesSoFar, ErrorsAdded
  <2>3. /\ f \in ArmFunction /\ f.errors = Current.errors \cup wrong /\ f.codes = filled
        /\ f.handlerAt = -1
    BY <1>1, <2>2 DEF ArmFunction
  <2>4. ArmCodes(Record, f.codes, f.errors)
    BY <2>3 DEF ArmCodes
  <2>5. ArmSettled(Record, f)
    BY <2>3, <2>4 DEF ArmSettled
  <2> QED
    BY <2>1, <2>3, <2>5, CodesSoFar, RecordEnds
<1> QED
  BY <1>4, <1>5

LEMMA SameLast ==
    ASSUME NEW S, NEW s \in Seq(S), s # <<>>
    PROVE  s[Len(s)] \in S /\ [s EXCEPT ![Len(s)] = s[Len(s)]] = s
<1>1. s = [i \in 1 .. Len(s) |-> s[i]] /\ Len(s) \in Nat \ {0}
  OBVIOUS
<1> QED
  BY <1>1

LEMMA ElementType == ASSUME NEW S, NEW s \in Seq(S), NEW j \in DOMAIN s PROVE s[j] \in S
OBVIOUS

LEMMA CodeTypes ==
    ASSUME NEW codes \in Seq([at : Nat, length : Nat]), NEW j \in DOMAIN codes
    PROVE  codes[j].at \in Nat /\ codes[j].length \in Nat
<1>1. codes[j] \in [at : Nat, length : Nat]
  BY ElementType
<1> QED
  BY <1>1

LEMMA Places ==
    ASSUME NEW n \in Nat, NEW j \in 1 .. n
    PROVE  /\ j \in Nat /\ j # 0
           /\ j = 1 \/ j - 1 \in 1 .. n
           /\ j - 1 = 0 \/ (j - 1 \in 1 .. n /\ j - 1 # 0 /\ j - 1 < n)
           /\ j = n \/ j < n
           /\ j < n => j + 1 \in 1 .. n
OBVIOUS

\* The codes are the old ones with a code at the position, behind all others or
\* in the place of the last of them.
OneMore(old, codes, pos) ==
    /\ \/ Len(codes) = Len(old) + 1
       \/ Len(codes) = Len(old) /\ old # <<>>
    /\ \A j \in DOMAIN codes : j < Len(codes) => codes[j] = old[j]
    /\ codes[Len(codes)].at = pos

LEMMA OneMoreInOrder ==
    ASSUME ArmInv, CodesLeft,
           NEW old \in Seq([at : Nat, length : Nat]), NEW codes \in Seq([at : Nat, length : Nat]),
           InOrder(Record, old), BehindLast(Record, old) = armPos, OneMore(old, codes, armPos)
    PROVE  InOrder(Record, codes)
<1>1. /\ armPos \in Nat /\ armPos < CodesEnd(Record) /\ CodesEnd(Record) \in Nat
      /\ CodesBegin(Record) \in Nat /\ CodesBegin(Record) <= armPos
  BY CodesSoFar
<1>2. /\ DOMAIN codes = 1 .. Len(codes) /\ DOMAIN old = 1 .. Len(old)
      /\ Len(codes) \in Nat /\ Len(old) \in Nat /\ (old # <<>> => Len(old) # 0)
  OBVIOUS
<1>3. \A j \in DOMAIN old : old[j].at \in Nat /\ old[j].length \in Nat
  BY CodeTypes
<1>4. EndOfCode(Record, old, Len(old)) = armPos
  BY DEF BehindLast
<1>5. Len(codes) = Len(old) + 1 \/ (Len(codes) = Len(old) /\ Len(old) # 0)
  BY <1>2 DEF OneMore
<1>6. ASSUME NEW j \in DOMAIN codes, j < Len(codes)
      PROVE  j \in DOMAIN old /\ codes[j] = old[j]
  <2>1. \A n, m \in Nat : \A k \in 1 .. n : (n = m + 1 \/ n = m) /\ k < n => k \in 1 .. m
    OBVIOUS
  <2>2. j \in 1 .. Len(old)
    BY <1>2, <1>5, <1>6, <2>1
  <2>3. codes[j] = old[j]
    BY <1>6 DEF OneMore
  <2> QED
    BY <1>2, <2>2, <2>3
<1>7. ASSUME NEW j \in DOMAIN codes
      PROVE  EndOfCode(Record, codes, j - 1) = EndOfCode(Record, old, j - 1)
  <2>1. j \in Nat /\ (j - 1 # 0 => j - 1 \in DOMAIN codes /\ j - 1 < Len(codes))
    BY <1>2
  <2> QED
    BY <1>6, <2>1 DEF EndOfCode
<1>8. ASSUME NEW j \in DOMAIN codes, j < Len(codes)
      PROVE  /\ codes[j].at >= EndOfCode(Record, codes, j - 1) /\ codes[j].at < CodesEnd(Record)
             /\ EndOfCode(Record, codes, j) <= CodesEnd(Record)
  <2>1. j \in DOMAIN old /\ codes[j] = old[j]
    BY <1>6, <1>8
  <2>2. old[j].at >= EndOfCode(Record, old, j - 1) /\ old[j].at < CodesEnd(Record)
        /\ (j < Len(old) => EndOfCode(Record, old, j) <= CodesEnd(Record))
    BY <2>1 DEF InOrder
  <2>3. EndOfCode(Record, codes, j) = EndOfCode(Record, old, j)
    BY <2>1 DEF EndOfCode
  <2>4. j < Len(old) \/ j = Len(old)
    BY <1>2, <2>1
  <2>5. j = Len(old) => EndOfCode(Record, old, j) <= CodesEnd(Record)
    BY <1>1, <1>4
  <2>6. EndOfCode(Record, old, j) <= CodesEnd(Record)
    BY <2>2, <2>4, <2>5
  <2> QED
    BY <1>7, <2>1, <2>2, <2>3, <2>6
<1>9. ASSUME NEW j \in DOMAIN codes, j = Len(codes)
      PROVE  codes[j].at >= EndOfCode(Record, codes, j - 1) /\ codes[j].at < CodesEnd(Record)
  <2>1. codes[j].at = armPos
    BY <1>9 DEF OneMore
  <2>2. CASE j = Len(old) + 1
    <3>1. j - 1 = Len(old)
      BY <1>2, <2>2
    <3>2. EndOfCode(Record, codes, j - 1) = armPos
      BY <1>4, <1>7, <3>1
    <3> QED
      BY <1>1, <2>1, <3>2
  <2>3. CASE j = Len(old) /\ Len(old) # 0
    <3>1. j \in DOMAIN old /\ j # 0 /\ j \in Nat
      BY <1>2, <1>9, <2>3
    <3>2. old[j].at >= EndOfCode(Record, old, j - 1)
      BY <3>1 DEF InOrder
    <3>3. armPos = old[j].at + old[j].length
      BY <1>4, <2>3, <3>1 DEF EndOfCode
    <3>4. EndOfCode(Record, old, j - 1) \in Int
      <4>1. j - 1 = 0 \/ j - 1 \in DOMAIN old
        BY <1>2, <3>1, Places
      <4>2. CASE j - 1 = 0
        BY <1>1, <4>2 DEF EndOfCode
      <4>3. CASE j - 1 \in DOMAIN old /\ j - 1 # 0
        <5>1. old[j - 1].at \in Nat /\ old[j - 1].length \in Nat
          BY <1>3, <4>3
        <5>2. EndOfCode(Record, old, j - 1) = old[j - 1].at + old[j - 1].length
          BY <4>3 DEF EndOfCode
        <5> QED
          BY <5>1, <5>2, SMTT(30)
      <4> QED
        BY <4>1, <4>2, <4>3
    <3>5. EndOfCode(Record, old, j - 1) <= armPos
      <4>1. old[j].at \in Nat /\ old[j].length \in Nat
        BY <1>3, <3>1
      <4>2. \A e \in Int, at \in Nat, length \in Nat : at >= e => e <= at + length
        OBVIOUS
      <4> QED
        BY <3>2, <3>3, <3>4, <4>1, <4>2, Zenon
    <3> QED
      BY <1>1, <1>7, <2>1, <3>5
  <2> QED
    BY <1>5, <1>9, <2>2, <2>3
<1>10. \A j \in DOMAIN codes : j = Len(codes) \/ j < Len(codes)
  BY <1>2
<1> QED
  BY <1>8, <1>9, <1>10 DEF InOrder

LEMMA CodeInv == ASSUME ArmInv, Code PROVE ArmInv'
<1> DEFINE length == CodeByte(Record, armPos)
           new == [at |-> armPos, length |-> length]
           codes == Append(Current.codes, new)
           filled == [codes EXCEPT ![Len(codes)] = new]
<1>1. CodesLeft /\ length \in 1 .. 4 /\ RestRead(codes, length, {})
  BY DEF Code
<1>2. Current.codes \in Seq([at : Nat, length : Nat]) /\ new \in [at : Nat, length : Nat]
  BY <1>1, CodesSoFar DEF ArmFunction
<1>3. codes \in Seq([at : Nat, length : Nat]) /\ codes # <<>> /\ filled = codes
  <2>1. codes \in Seq([at : Nat, length : Nat]) /\ Len(codes) = Len(Current.codes) + 1
        /\ codes[Len(codes)] = new /\ Len(codes) # 0
    BY <1>2
  <2>2. filled = codes
    <3> HIDE DEF codes, new
    <3>1. codes # <<>>
      BY <2>1
    <3>2. [codes EXCEPT ![Len(codes)] = codes[Len(codes)]] = codes
      BY <2>1, <3>1, SameLast
    <3> QED
      BY <2>1, <3>2
  <2> QED
    BY <2>1, <2>2
<1>4. /\ Len(codes) = Len(Current.codes) + 1 /\ codes[Len(codes)] = new
      /\ DOMAIN codes = 1 .. Len(codes) /\ Len(Current.codes) \in Nat
      /\ \A j \in DOMAIN Current.codes : codes[j] = Current.codes[j]
      /\ DOMAIN Current.codes = 1 .. Len(Current.codes)
  BY <1>2
<1>5. length \in Nat /\ {} \in SUBSET ArmErrors /\ new.at = armPos /\ new.length = length
  BY <1>1
<1> HIDE DEF length, codes, new
<1>6. InOrder(Record, codes)
  <2>1. OneMore(Current.codes, codes, armPos)
    BY <1>4, <1>5 DEF OneMore
  <2>2. InOrder(Record, Current.codes) /\ BehindLast(Record, Current.codes) = armPos
    BY <1>1, CodesSoFar DEF ArmCodes
  <2> QED
    BY <1>1, <1>2, <1>3, <2>1, <2>2, OneMoreInOrder
<1>7. ASSUME "invalid_uwop_code" \notin Current.errors
      PROVE  Adjacent(Record, codes) /\ Spelled(Record, codes)
  <2>1. Adjacent(Record, Current.codes) /\ Spelled(Record, Current.codes)
    BY <1>1, <1>7, CodesSoFar DEF ArmCodes
  <2>2. new.length = CodeByte(Record, new.at)
    BY <1>5 DEF length
  <2>3. Spelled(Record, codes)
    BY <1>4, <2>1, <2>2 DEF Spelled
  <2>4. ASSUME NEW j \in DOMAIN codes PROVE codes[j].at = EndOfCode(Record, codes, j - 1)
    <3>1. EndOfCode(Record, codes, j - 1) = EndOfCode(Record, Current.codes, j - 1)
      BY <1>4 DEF EndOfCode
    <3>2. CASE j = Len(codes)
      BY <1>1, <1>4, <1>5, <3>1, <3>2, CodesSoFar DEF BehindLast
    <3>3. CASE j \in DOMAIN Current.codes
      BY <1>4, <2>1, <3>1, <3>3 DEF Adjacent
    <3> QED
      BY <1>4, <3>2, <3>3
  <2> QED
    BY <2>3, <2>4 DEF Adjacent
<1>8. ArmCodes(Record, codes, Current.errors \cup {})
  BY <1>6, <1>7 DEF ArmCodes
<1> QED
  BY <1>1, <1>3, <1>5, <1>6, <1>8, RestReadInv DEF filled, new

LEMMA UnsupportedCodeInv == ASSUME ArmInv, UnsupportedCode PROVE ArmInv'
<1> DEFINE codes == Current.codes
           length == codes[Len(codes)].length
<1>1. CodesLeft /\ codes # <<>> /\ RestRead(codes, length, {"invalid_uwop_code"})
  BY DEF UnsupportedCode
<1>2. codes \in Seq([at : Nat, length : Nat])
  BY <1>1, CodesSoFar DEF ArmFunction
<1>3. codes[Len(codes)] \in [at : Nat, length : Nat]
  BY <1>1, <1>2, SameLast
<1>4. length \in Nat
  BY <1>3
<1>5. {"invalid_uwop_code"} \in SUBSET ArmErrors
  BY DEF ArmErrors
<1> DEFINE filled == [codes EXCEPT ![Len(codes)] = [at |-> armPos, length |-> length]]
<1>6. /\ filled \in Seq([at : Nat, length : Nat]) /\ Len(filled) = Len(codes)
      /\ \A j \in DOMAIN filled : j < Len(filled) => filled[j] = codes[j]
      /\ filled[Len(filled)].at = armPos
  <2>1. armPos \in Nat /\ Len(codes) \in DOMAIN codes
    BY <1>1, <1>2, CodesSoFar
  <2> HIDE DEF length, codes
  <2> QED
    BY <1>2, <1>4, <2>1
<1>7. InOrder(Record, codes) /\ BehindLast(Record, codes) = armPos
  BY <1>1, CodesSoFar DEF ArmCodes
<1> HIDE DEF length, codes, filled
<1>8. InOrder(Record, filled)
  <2>1. OneMore(codes, filled, armPos)
    BY <1>1, <1>6 DEF OneMore
  <2> QED
    BY <1>1, <1>2, <1>6, <1>7, <2>1, OneMoreInOrder
<1>9. ArmCodes(Record, filled, Current.errors \cup {"invalid_uwop_code"})
  BY <1>8 DEF ArmCodes
<1> QED
  BY <1>1, <1>2, <1>4, <1>5, <1>8, <1>9, RestReadInv DEF filled

LEMMA CodesReadInv == ASSUME ArmInv, CodesRead PROVE ArmInv'
<1>1. /\ armPc = "codes" /\ armPc \in InRecord /\ armPos >= CodesEnd(Record)
      /\ armPc' = "handler" /\ armPc' \in InRecord
      /\ UNCHANGED <<armDir, armRva, armFunctions, armPos>>
  BY DEF CodesRead, InRecord
<1>2. /\ Record \in RecordType /\ Current \in ArmFunction
      /\ ArmTurn(armPc, Record, Current, armPos)
  BY <1>1, RecordIsLast
<1>3. armPos = CodesEnd(Record) /\ armPos \in Nat
  BY <1>1, <1>2, RecordSizes DEF ArmTurn
<1>4. ArmTurn(armPc', Record, Current, armPos')
  BY <1>1, <1>2, <1>3 DEF ArmTurn, AreaEnds
<1> QED
  BY <1>1, <1>2, <1>3, <1>4, FunctionKept, RecordContinues

\* What is undefined is not followed further.
LEMMA UnsupportedFirstInv == ASSUME ArmInv, UnsupportedFirst PROVE ArmInv'
<1>1. /\ CodesLeft /\ armPc' = "undefined" /\ armPc' \in InRecord
      /\ UNCHANGED <<armDir, armRva, armFunctions, armPos>>
  BY DEF UnsupportedFirst, InRecord
<1>2. ArmTurn(armPc', Record, Current, armPos')
  BY <1>1, CodesSoFar DEF ArmTurn
<1> QED
  BY <1>1, <1>2, CodesSoFar, FunctionKept, RecordContinues

LEMMA HandlerInv == ASSUME ArmInv, Handler PROVE ArmInv'
<1>1. /\ armPc = "handler" /\ armPc \in InRecord /\ RecordDone
      /\ UNCHANGED <<armDir, armPos>>
  BY DEF Handler, InRecord
<1>2. /\ Record \in RecordType /\ Current \in ArmFunction
      /\ ArmTurn(armPc, Record, Current, armPos)
  BY <1>1, RecordIsLast
<1>3. armPos = CodesEnd(Record) /\ armPos \in Nat /\ Current.handlerAt = -1
  BY <1>1, <1>2, RecordSizes DEF ArmTurn
<1>4. AreaEnds(Record, Current.codes) /\ ArmCodes(Record, Current.codes, Current.errors)
  BY <1>1, <1>2 DEF ArmTurn
<1>5. CASE ~Record.handler
  <2>1. UpdateCurrent(Current)
    BY <1>1, <1>5, FunctionKept DEF Handler
  <2>2. ArmSettled(Record, Current)
    BY <1>3, <1>4 DEF ArmSettled
  <2> QED
    BY <1>1, <1>2, <2>1, <2>2, RecordEnds
<1>6. CASE Record.handler /\ ~CanRead(WordSize)
  <2> DEFINE f == WithErrors({"invalid_exception_handler"})
  <2>1. {"invalid_exception_handler"} \in SUBSET ArmErrors
    BY DEF ArmErrors
  <2>2. /\ f \in ArmFunction /\ f.codes = Current.codes /\ f.handlerAt = -1
        /\ f.errors = Current.errors \cup {"invalid_exception_handler"}
    BY <1>1, <2>1, ErrorsAdded
  <2>3. UpdateCurrent(f)
    BY <1>6 DEF Handler
  <2>4. ArmSettled(Record, f)
    BY <1>4, <2>2, CodesKeepOrder DEF ArmSettled
  <2> QED
    BY <1>1, <2>2, <2>3, <2>4, RecordEnds
<1>7. CASE Record.handler /\ CanRead(WordSize)
  <2> DEFINE errors == IF Record.target THEN {} ELSE {"invalid_exception_handler_rva"}
             f == [WithErrors(errors) EXCEPT !.handlerAt = armPos]
  <2>1. errors \in SUBSET ArmErrors
    BY DEF ArmErrors
  <2>2. /\ WithErrors(errors) \in ArmFunction
        /\ WithErrors(errors).errors = Current.errors \cup errors
        /\ WithErrors(errors).codes = Current.codes
    BY <1>1, <2>1, ErrorsAdded
  <2>3. /\ f \in ArmFunction /\ f.errors = Current.errors \cup errors
        /\ f.codes = Current.codes /\ f.handlerAt = armPos
    <3> DEFINE g == WithErrors(errors)
    <3> HIDE DEF g, errors
    <3>1. g \in ArmFunction /\ g.errors = Current.errors \cup errors /\ g.codes = Current.codes
      BY <2>2 DEF g
    <3>2. armPos \in Int
      BY <1>3
    <3>3. LET h == [g EXCEPT !.handlerAt = armPos] IN
          h \in ArmFunction /\ h.errors = g.errors /\ h.codes = g.codes /\ h.handlerAt = armPos
      BY <3>1, <3>2 DEF ArmFunction
    <3> QED
      BY <3>1, <3>3 DEF g
  <2>4. UpdateCurrent(f)
    BY <1>7 DEF Handler
  <2>5. ArmCodes(Record, f.codes, f.errors)
    BY <1>4, <2>3, CodesKeepOrder
  <2>6. ArmSettled(Record, f)
    BY <1>3, <1>4, <2>3, <2>5 DEF ArmSettled
  <2> QED
    BY <1>1, <2>3, <2>4, <2>6, RecordEnds
<1> QED
  BY <1>5, <1>6, <1>7

\* A new entry of the list: a function that is settled, or a record.
LEMMA FunctionAdded ==
    ASSUME ArmInv, armPc = "entry", armRva <= LastValidRva, NEW f \in ArmFunction,
           armFunctions' = Append(armFunctions, f), armDir' = armDir
    PROVE  LET n == Len(armFunctions) IN
           /\ Record = RecordOf(n + 1) /\ armDir \in ArmDirectoryType /\ n \in Nat
           /\ armFunctions' \in Seq(ArmFunction) /\ Len(armFunctions') = n + 1
           /\ armFunctions' # <<>> /\ DOMAIN armFunctions' = 1 .. n + 1
           /\ armFunctions'[n + 1] = f
           /\ n + 1 <= Len(armDir.entries)
           /\ \A i \in 1 .. n : /\ armFunctions'[i] = armFunctions[i]
                                /\ ArmSettled(armDir'.entries[i], armFunctions'[i])
           /\ armRva = armDir.rva + EntrySize * n /\ armDir.rva \in Nat
<1> DEFINE n == Len(armFunctions)
<1>1. /\ armFunctions \in Seq(ArmFunction) /\ armDir \in ArmDirectoryType /\ n \in Nat
      /\ armRva = armDir.rva + 8 * n
  BY DEF ArmInv, ArmPlace, EntrySize
<1>2. /\ armDir.rva \in Nat /\ armDir.size \in Nat /\ Len(armDir.entries) \in Nat
      /\ armDir.size < 8 * (Len(armDir.entries) + 1)
  BY <1>1, ArmDirectoriesAssumption DEF ArmDirectoryType, EntrySize
<1>3. n + 1 <= Len(armDir.entries) /\ EntryIndex = n + 1
  <2>1. n + 1 <= Len(armDir.entries)
    <3>1. armRva <= (armDir.rva + armDir.size) - 8
      BY DEF LastValidRva, LastRva, EntrySize
    <3>2. 8 * n + 8 <= armDir.size
      BY <1>1, <1>2, <3>1
    <3> HIDE DEF n
    <3> QED
      BY <1>1, <1>2, <3>2
  <2>2. armRva = armDir.rva + 8 * ((n + 1) - 1) /\ n + 1 \in Nat \ {0}
    BY <1>1, <1>2
  <2> HIDE DEF n
  <2> QED
    BY <1>2, <2>1, <2>2, IndexAt DEF EntrySize, EntryIndex
<1>4. \A i \in 1 .. n : /\ armFunctions'[i] = armFunctions[i]
                        /\ ArmSettled(armDir'.entries[i], armFunctions'[i])
  BY <1>1 DEF ArmInv, InRecord, RecordOf
<1> QED
  BY <1>1, <1>2, <1>3, <1>4 DEF Record, RecordOf, EntrySize

LEMMA EntryInv == ASSUME ArmInv, EntryUnread \/ PackedEntry \/ RecordEntry PROVE ArmInv'
<1> DEFINE n == Len(armFunctions)
<1>1. armPc = "entry" /\ armRva <= LastValidRva /\ armDir' = armDir
  BY DEF EntryUnread, PackedEntry, RecordEntry
<1>2. /\ armPos \in Nat /\ armRva \in Nat
  BY DEF ArmInv, ArmPlace
<1>3. ASSUME NEW u \in {"none", "packed", "record"}, NEW e \in SUBSET ArmErrors
      PROVE  LET f == [Function(u) EXCEPT !.errors = e] IN
             /\ f \in ArmFunction /\ f.unwind = u /\ f.handlerAt = -1
             /\ f.codes = <<>> /\ f.scopes = <<>> /\ f.errors = e
  <2>1. Function(u) \in ArmFunction
    BY DEF Function, ArmFunction
  <2>2. [Function(u) EXCEPT !.errors = e] =
            [unwind |-> u, scopes |-> <<>>, codes |-> <<>>, handlerAt |-> -1, errors |-> e]
    BY DEF Function
  <2>3. [unwind |-> u, scopes |-> <<>>, codes |-> <<>>, handlerAt |-> -1, errors |-> e] \in ArmFunction
    BY <1>3 DEF ArmFunction
  <2> QED
    BY <2>2, <2>3
<1>4. ASSUME NEW f \in ArmFunction, armFunctions' = Append(armFunctions, f),
             f.handlerAt = -1, f.unwind # "record",
             \/ armPc' = "end" /\ armRva' = armRva
             \/ armPc' = "entry" /\ armRva' = armRva + EntrySize,
             armPos' = armPos
      PROVE  ArmInv'
  <2>1. ArmPlace'
    <3>1. /\ armFunctions' \in Seq(ArmFunction) /\ Len(armFunctions') = n + 1 /\ n \in Nat
          /\ armFunctions' # <<>> /\ n + 1 <= Len(armDir.entries) /\ armDir \in ArmDirectoryType
          /\ armRva = armDir.rva + EntrySize * n /\ armDir.rva \in Nat
      BY <1>1, <1>4, FunctionAdded
    <3>2. armPc' = "entry" => armRva' = armDir'.rva + EntrySize * Len(armFunctions')
      BY <1>1, <1>4, <3>1 DEF EntrySize
    <3>3. armPc' \in {"entry", "end"} /\ armRva' \in Nat /\ armPos' \in Nat
      BY <1>2, <1>4 DEF EntrySize
    <3> QED
      BY <1>1, <3>1, <3>2, <3>3 DEF ArmPlace, InRecord
  <2>2. ArmSettled(armDir'.entries[n + 1], armFunctions'[n + 1])
    BY <1>1, <1>4, FunctionAdded DEF ArmSettled
  <2> QED
    BY <1>1, <1>4, <2>1, <2>2, FunctionAdded DEF ArmInv, InRecord, RecordOf
<1>5. CASE EntryUnread
  <2>1. {"invalid_runtime_function_entry"} \in SUBSET ArmErrors
    BY DEF ArmErrors
  <2> QED
    BY <1>3, <1>4, <1>5, <2>1 DEF EntryUnread
<1>6. CASE PackedEntry
  <2>1. Function("packed") \in ArmFunction /\ Function("packed").handlerAt = -1
        /\ Function("packed").unwind = "packed"
    BY DEF Function, ArmFunction
  <2> QED
    BY <1>4, <1>6, <2>1 DEF PackedEntry
<1>7. CASE RecordEntry
  <2> DEFINE f == Function("record")
  <2>1. f \in ArmFunction /\ f.handlerAt = -1 /\ f.unwind = "record"
        /\ f.codes = <<>> /\ f.scopes = <<>>
    BY DEF Function, ArmFunction
  <2>2. /\ Record.entry = "record" /\ armFunctions' = Append(armFunctions, f)
        /\ armPos' = 0 /\ armPc' = "header" /\ UNCHANGED <<armDir, armRva>>
    BY <1>7 DEF RecordEntry
  <2>3. ArmPlace'
    BY <1>1, <1>2, <2>1, <2>2, FunctionAdded DEF ArmPlace, InRecord, EntrySize
  <2>4. ArmTurn(armPc', armDir'.entries[n + 1], armFunctions'[n + 1], armPos')
    BY <1>1, <2>1, <2>2, FunctionAdded, NoCodes DEF ArmTurn, RecordOf
  <2>5. /\ Len(armFunctions') = n + 1 /\ n \in Nat /\ DOMAIN armFunctions' = 1 .. n + 1
        /\ \A i \in 1 .. n : ArmSettled(armDir'.entries[i], armFunctions'[i])
    BY <1>1, <2>1, <2>2, FunctionAdded
  <2>6. armPc' \in InRecord
    BY <2>2 DEF InRecord
  <2> QED
    BY <2>3, <2>4, <2>5, <2>6 DEF ArmInv, Current, RecordOf
<1> QED
  BY <1>5, <1>6, <1>7

\* Steps that only move on keep what is known of the functions.
LEMMA SizeCheckedInv == ASSUME ArmInv, SizeChecked PROVE ArmInv'
<1>1. /\ armPc = "directory" /\ armFunctions = <<>> /\ armPc' \in {"done", "entry"}
      /\ UNCHANGED <<armDir, armRva, armFunctions, armPos>>
  BY DEF SizeChecked, ArmInv, ArmPlace
<1>2. ArmPlace'
  BY <1>1 DEF ArmInv, ArmPlace, InRecord
<1> QED
  BY <1>1, <1>2 DEF ArmInv, InRecord

LEMMA EndOfEntriesInv == ASSUME ArmInv, EndOfEntries PROVE ArmInv'
<1>1. /\ armPc \in {"end", "entry"} /\ armPc' = "done"
      /\ UNCHANGED <<armDir, armRva, armFunctions, armPos>>
  BY DEF EndOfEntries
<1>2. ArmPlace'
  BY <1>1 DEF ArmInv, ArmPlace, InRecord
<1>3. \A i \in DOMAIN armFunctions : ArmSettled(RecordOf(i), armFunctions[i])
  BY <1>1 DEF ArmInv, InRecord
<1> QED
  BY <1>1, <1>2, <1>3 DEF ArmInv, InRecord, RecordOf

LEMMA ArmStep == ArmInv /\ ArmLoad => ArmInv'
BY SizeCheckedInv, EntryInv, EndOfEntriesInv, HeaderInv, ScopeInv, ScopesReadInv, CodeUnreadInv,
   FillerInv, CodeInv, UnsupportedCodeInv, UnsupportedFirstInv, CodesReadInv, HandlerInv
   DEF ArmLoad

\* ArmInv says what the properties say.
LEMMA ArmProperties == ArmInv => ArmCodesTile /\ ArmHandlerBehindCodes
<1> SUFFICES ASSUME ArmInv PROVE ArmCodesTile /\ ArmHandlerBehindCodes
  OBVIOUS
<1> SUFFICES ASSUME NEW i \in DOMAIN armFunctions
             PROVE  LET f == armFunctions[i]
                        r == RecordOf(i)
                    IN /\ f.handlerAt # -1 => f.handlerAt = CodesEnd(r)
                       /\ f.unwind = "record" =>
                            /\ ArmCodes(r, f.codes, f.errors)
                            /\ \/ ArmInTurn(i) \/ "invalid_extended_unwind_info" \in f.errors
                               \/ AreaEnds(r, f.codes)
  BY DEF ArmCodesTile, ArmHandlerBehindCodes, ArmCodes, AreaEnds
<1>1. armFunctions \in Seq(ArmFunction)
  BY DEF ArmInv, ArmPlace
<1>2. CASE i < Len(armFunctions) \/ armPc \notin InRecord
  BY <1>2 DEF ArmInv, ArmSettled, InRecord
<1>3. CASE i = Len(armFunctions) /\ armPc \in InRecord
  BY <1>1, <1>3, RecordIsLast DEF ArmTurn, Current, InRecord, ArmInTurn
<1> QED
  BY <1>1, <1>2, <1>3

-----------------------------------------------------------------------------
(***************************************************************************)
(* The unwind information of x64: for every directory, codes tile their      *)
(* slots or say why not, and what is behind them is what the file has there, *)
(* however long the chains of entries are.                                   *)
(***************************************************************************)

X64ErrorNames ==
    {"unaligned_runtime_function_entry", "unaligned_unwind_info",
     "invalid_runtime_function_entry", "invalid_unwind_info", "unknown_unwind_code",
     "push_nonvol_uwop_out_of_order", "invalid_unwind_slot_count", "both_set_fpreg_types_used",
     "invalid_unwind_info_flags", "invalid_chained_runtime_function_entry",
     "invalid_exception_handler_rva", "invalid_c_specific_handler_record_count",
     "invalid_c_specific_handler_record"}

X64Codes == Seq([code : STRING, slot : Nat, loaded : BOOLEAN])

X64Function(d) ==
    [info : {"none"} \cup DOMAIN d.infos, codes : X64Codes, extra : {"none", "chained", "handler"},
     behindAt : Int, scopes : Nat, errors : SUBSET X64ErrorNames]

X64Chains(d) == Seq(X64Function(d)) \ {<<>>}

InInfo == {"info", "codes", "behind", "exhausted"}

\* What is true of every function, at any time.
X64Settled(d, f) ==
    /\ SlotsInOrder(d.infos[f.info], f.codes)
    /\ f.extra \in {"chained", "handler"} =>
        ("invalid_chained_runtime_function_entry" \in f.errors
            <=> f.extra = "chained" /\ d.infos[f.info].behind \in {"unread", "zero"})

\* What is true of it when its codes are read.
X64Ended(d, f) == WithoutCodes(f) \/ SlotsEnd(d.infos[f.info], f.codes, f.errors)

\* The codes so far end at the slot.
SlotsReach(info, codes, errors, slot) ==
    LET behind == SlotBehind(codes, Len(codes)) IN
    IF BehindEpilog(codes, Len(codes))
    THEN slot > codes[Len(codes)].slot /\ "invalid_unwind_slot_count" \notin errors
    ELSE IF "invalid_unwind_slot_count" \in errors
    THEN slot = Len(info.slots) /\ behind > Len(info.slots)
    ELSE behind = slot

\* What is true of the innermost function while it is read.
X64Turn(pc, d, f, slot) ==
    /\ f.info \in DOMAIN d.infos /\ f.extra = "none" /\ f.behindAt = -1
    /\ "invalid_chained_runtime_function_entry" \notin f.errors
    /\ SlotsInOrder(d.infos[f.info], f.codes)
    /\ pc = "info" => f.codes = <<>> /\ f.errors \subseteq {"unaligned_runtime_function_entry"}
    /\ pc = "codes" =>
        /\ slot \in 0 .. Len(d.infos[f.info].slots)
        /\ "unknown_unwind_code" \notin f.errors
        /\ SlotsReach(d.infos[f.info], f.codes, f.errors, slot)
    /\ pc \in {"behind", "exhausted"} => X64Ended(d, f)

\* All functions but the innermost of the last chain are read.
IsInnermost(i, j) == i = Len(x64Functions) /\ j = Len(x64Functions[i])
OthersEnded ==
    \A i \in DOMAIN x64Functions : \A j \in DOMAIN x64Functions[i] :
        /\ X64Settled(x64Dir, x64Functions[i][j])
        /\ IsInnermost(i, j) \/ X64Ended(x64Dir, x64Functions[i][j])

X64Place ==
    /\ x64Pc \in {"directory", "entry", "end", "done"} \cup InInfo
    /\ x64Pc # "done" \/ x64Functions # <<>> => IsX64Directory(x64Dir)
    /\ x64Functions \in Seq(X64Chains(x64Dir)) /\ x64Slot \in Nat
    /\ \E k \in Nat : x64Rva = x64Dir.rva + X64EntrySize * k
    /\ x64Pc = "directory" => x64Functions = <<>>
    /\ x64Pc \in InInfo => x64Functions # <<>>

X64Inv ==
    /\ X64Place
    /\ IF x64Pc \in InInfo THEN X64Turn(x64Pc, x64Dir, Innermost, x64Slot)
       ELSE x64Functions # <<>> => X64Ended(x64Dir, Innermost)
    /\ OthersEnded

\* The unwind information that is read is that of the innermost function.
LEMMA InfoIsThere ==
    ASSUME X64Inv, x64Pc \in InInfo
    PROVE  /\ IsX64Directory(x64Dir) /\ Len(x64Functions) \in DOMAIN x64Functions
           /\ Len(x64Functions) \in Nat \ {0}
           /\ Chain \in X64Chains(x64Dir) /\ Chain \in Seq(X64Function(x64Dir))
           /\ Len(Chain) \in DOMAIN Chain /\ Len(Chain) \in Nat \ {0}
           /\ Innermost \in X64Function(x64Dir)
           /\ Innermost.info \in DOMAIN x64Dir.infos /\ Info = x64Dir.infos[Innermost.info]
           /\ Info \in InfoType /\ Info.slots \in Seq(STRING) /\ Len(Info.slots) \in Nat
           /\ X64Turn(x64Pc, x64Dir, Innermost, x64Slot)
<1>1. /\ IsX64Directory(x64Dir) /\ x64Functions \in Seq(X64Chains(x64Dir))
      /\ x64Functions # <<>> /\ X64Turn(x64Pc, x64Dir, Innermost, x64Slot)
  BY DEF X64Inv, X64Place
<1>2. /\ Len(x64Functions) \in DOMAIN x64Functions /\ Len(x64Functions) \in Nat \ {0}
      /\ Chain \in X64Chains(x64Dir)
  BY <1>1 DEF Chain
<1>3. Chain \in Seq(X64Function(x64Dir)) /\ Chain # <<>>
  BY <1>2 DEF X64Chains
<1>4. /\ Len(Chain) \in DOMAIN Chain /\ Len(Chain) \in Nat \ {0}
      /\ Innermost \in X64Function(x64Dir)
  BY <1>3 DEF Innermost
<1>5. Innermost.info \in DOMAIN x64Dir.infos
  BY <1>1 DEF X64Turn
<1>6. Info = x64Dir.infos[Innermost.info] /\ Info \in InfoType
  BY <1>1, <1>5 DEF Info, IsX64Directory
<1>7. Info.slots \in Seq(STRING)
  BY <1>6 DEF InfoType
<1> QED
  BY <1>1, <1>2, <1>3, <1>4, <1>5, <1>6, <1>7

\* In turn means settled: nothing is behind the codes yet.
LEMMA TurnIsSettled ==
    ASSUME NEW pc, NEW d, NEW f, NEW slot, X64Turn(pc, d, f, slot)
    PROVE  X64Settled(d, f)
BY DEF X64Turn, X64Settled

\* All functions of a chain are settled, and all but the last one are read.
ChainEnded(c) ==
    \A j \in DOMAIN c : /\ X64Settled(x64Dir, c[j])
                        /\ j = Len(c) \/ X64Ended(x64Dir, c[j])

\* The last chain is replaced by another one.
LEMMA ChainReplaced ==
    ASSUME X64Inv, x64Pc \in InInfo, NEW c \in X64Chains(x64Dir),
           x64Functions' = [x64Functions EXCEPT ![Len(x64Functions)] = c],
           ChainEnded(c), x64Dir' = x64Dir
    PROVE  /\ x64Functions' \in Seq(X64Chains(x64Dir)) /\ x64Functions' # <<>>
           /\ Chain' = c
           /\ OthersEnded'
<1> DEFINE n == Len(x64Functions)
<1>1. x64Functions \in Seq(X64Chains(x64Dir)) /\ n \in DOMAIN x64Functions /\ n \in Nat \ {0}
  BY InfoIsThere DEF X64Inv, X64Place
<1>2. /\ x64Functions' \in Seq(X64Chains(x64Dir)) /\ Len(x64Functions') = n
      /\ x64Functions'[n] = c /\ DOMAIN x64Functions' = DOMAIN x64Functions
      /\ \A i \in DOMAIN x64Functions \ {n} : x64Functions'[i] = x64Functions[i]
  BY <1>1
<1>3. Chain' = c /\ x64Functions' # <<>>
  BY <1>1, <1>2 DEF Chain
<1>4. ASSUME NEW i \in DOMAIN x64Functions', NEW j \in DOMAIN x64Functions'[i]
      PROVE  /\ X64Settled(x64Dir', x64Functions'[i][j])
             /\ IsInnermost(i, j)' \/ X64Ended(x64Dir', x64Functions'[i][j])
  <2>1. CASE i = n
    BY <1>2, <1>4, <2>1 DEF IsInnermost, ChainEnded
  <2>2. CASE i # n
    <3>1. i \in DOMAIN x64Functions /\ j \in DOMAIN x64Functions[i]
          /\ x64Functions'[i] = x64Functions[i] /\ ~IsInnermost(i, j)
      BY <1>2, <1>4, <2>2 DEF IsInnermost
    <3> QED
      BY <3>1 DEF X64Inv, OthersEnded
  <2> QED
    BY <2>1, <2>2
<1> QED
  BY <1>2, <1>3, <1>4 DEF OthersEnded

\* The innermost function is changed.
LEMMA InnermostChanged ==
    ASSUME X64Inv, x64Pc \in InInfo, NEW f \in X64Function(x64Dir), UpdateInnermost(f),
           X64Settled(x64Dir, f), x64Dir' = x64Dir
    PROVE  /\ x64Functions' \in Seq(X64Chains(x64Dir)) /\ x64Functions' # <<>>
           /\ Innermost' = f
           /\ OthersEnded'
<1> DEFINE c == [Chain EXCEPT ![Len(Chain)] = f]
<1>1. /\ Chain \in Seq(X64Function(x64Dir)) /\ Len(Chain) \in DOMAIN Chain
      /\ Len(Chain) \in Nat \ {0}
      /\ Len(x64Functions) \in DOMAIN x64Functions /\ x64Functions \in Seq(X64Chains(x64Dir))
  BY InfoIsThere DEF X64Inv, X64Place
<1>2. /\ c \in Seq(X64Function(x64Dir)) /\ Len(c) = Len(Chain) /\ c[Len(c)] = f
      /\ \A j \in DOMAIN c : \/ j = Len(c)
                             \/ j \in DOMAIN Chain /\ j # Len(Chain) /\ c[j] = Chain[j]
  <2>1. c \in Seq(X64Function(x64Dir)) /\ Len(c) = Len(Chain) /\ DOMAIN c = DOMAIN Chain
    BY <1>1
  <2>2. c[Len(Chain)] = f /\ \A j \in DOMAIN Chain : j # Len(Chain) => c[j] = Chain[j]
    BY <1>1
  <2> HIDE DEF c
  <2>3. c[Len(c)] = f
    BY <2>1, <2>2
  <2>4. ASSUME NEW j \in DOMAIN c
        PROVE  \/ j = Len(c)
               \/ j \in DOMAIN Chain /\ j # Len(Chain) /\ c[j] = Chain[j]
    <3>1. CASE j = Len(Chain)
      BY <2>1, <3>1
    <3>2. CASE j # Len(Chain)
      BY <2>1, <2>2, <2>4, <3>2
    <3> QED
      BY <3>1, <3>2
  <2> QED
    BY <2>1, <2>3, <2>4
<1>3. c \in X64Chains(x64Dir)
  BY <1>1, <1>2 DEF X64Chains
<1>4. x64Functions' = [x64Functions EXCEPT ![Len(x64Functions)] = c]
  BY <1>1 DEF UpdateInnermost, Chain
<1>5. ChainEnded(Chain)
  BY <1>1 DEF X64Inv, OthersEnded, IsInnermost, Chain, ChainEnded
<1>6. ChainEnded(c)
  BY <1>2, <1>5 DEF ChainEnded
<1> HIDE DEF c
<1>7. Chain' = c
  BY <1>3, <1>4, <1>6, ChainReplaced
<1> QED
  BY <1>2, <1>3, <1>4, <1>6, <1>7, ChainReplaced DEF Innermost

\* The innermost call returns, and all the others with it.
LEMMA InfoEnds ==
    ASSUME X64Inv, x64Pc \in InInfo, NEW f \in X64Function(x64Dir), UpdateInnermost(f),
           X64Settled(x64Dir, f), X64Ended(x64Dir, f), Returns,
           x64Dir' = x64Dir, x64Slot' \in Nat
    PROVE  X64Inv'
<1>1. x64Functions' \in Seq(X64Chains(x64Dir)) /\ Innermost' = f /\ OthersEnded'
  BY InnermostChanged
<1>2. x64Pc' = "entry" /\ x64Rva' = x64Rva + 12 /\ IsX64Directory(x64Dir)
  BY InfoIsThere DEF Returns, X64EntrySize
<1>3. \E k \in Nat : x64Rva' = x64Dir'.rva + X64EntrySize * k
  <2>1. PICK k \in Nat : x64Rva = x64Dir.rva + 12 * k
    BY DEF X64Inv, X64Place, X64EntrySize
  <2>2. x64Dir.rva \in Nat
    BY <1>2, X64DirectoriesAssumption DEF IsX64Directory
  <2>3. x64Rva' = x64Dir'.rva + 12 * (k + 1) /\ k + 1 \in Nat
    BY <1>2, <2>1, <2>2
  <2> QED
    BY <2>3 DEF X64EntrySize
<1>4. X64Place'
  BY <1>1, <1>2, <1>3 DEF X64Place, InInfo
<1> QED
  BY <1>1, <1>2, <1>4 DEF X64Inv, InInfo

\* The innermost call goes on.
LEMMA InfoGoesOn ==
    ASSUME X64Inv, x64Pc \in InInfo, NEW f \in X64Function(x64Dir), UpdateInnermost(f),
           x64Pc' \in InInfo, X64Turn(x64Pc', x64Dir, f, x64Slot'),
           x64Dir' = x64Dir, x64Rva' = x64Rva, x64Slot' \in Nat
    PROVE  X64Inv'
<1>1. X64Settled(x64Dir, f)
  BY TurnIsSettled
<1>2. /\ x64Functions' \in Seq(X64Chains(x64Dir)) /\ x64Functions' # <<>> /\ Innermost' = f
      /\ OthersEnded'
  BY <1>1, InnermostChanged
<1>3. X64Place'
  BY <1>2, InfoIsThere DEF X64Inv, X64Place, InInfo
<1> QED
  BY <1>2, <1>3 DEF X64Inv

LEMMA InnermostKept ==
    ASSUME X64Inv, x64Pc \in InInfo, UNCHANGED x64Functions
    PROVE  UpdateInnermost(Innermost)
<1>1. /\ Chain \in Seq(X64Function(x64Dir)) /\ Chain # <<>>
      /\ x64Functions \in Seq(X64Chains(x64Dir)) /\ x64Functions # <<>>
  BY InfoIsThere DEF X64Inv, X64Place
<1>2. [Chain EXCEPT ![Len(Chain)] = Innermost] = Chain
  BY <1>1, SameLast DEF Innermost
<1>3. [x64Functions EXCEPT ![Len(x64Functions)] = Chain] = x64Functions
  BY <1>1, SameLast DEF Chain
<1>4. [x64Functions EXCEPT ![Len(x64Functions)][Len(Chain)] = Innermost]
        = [x64Functions EXCEPT ![Len(x64Functions)] = [Chain EXCEPT ![Len(Chain)] = Innermost]]
  BY DEF Chain
<1> QED
  BY <1>2, <1>3, <1>4 DEF UpdateInnermost

\* Errors of the innermost function.
LEMMA InfoErrors ==
    ASSUME X64Inv, x64Pc \in InInfo, NEW errors \in SUBSET X64ErrorNames
    PROVE  /\ FunctionWith(errors) \in X64Function(x64Dir)
           /\ FunctionWith(errors).errors = Innermost.errors \cup errors
           /\ FunctionWith(errors).codes = Innermost.codes
           /\ FunctionWith(errors).info = Innermost.info
           /\ FunctionWith(errors).extra = "none" /\ FunctionWith(errors).behindAt = -1
BY InfoIsThere DEF FunctionWith, X64Function, X64Turn

\* Errors of what is behind the codes leave the codes as they are.
CodeErrors == {"invalid_unwind_slot_count", "unknown_unwind_code"}

LEMMA StillEnded ==
    ASSUME NEW d, NEW f, NEW g, NEW errors, X64Ended(d, f),
           g.info = f.info, g.codes = f.codes, g.errors = f.errors \cup errors,
           errors \cap CodeErrors = {}
    PROVE  X64Ended(d, g)
<1>1. /\ "invalid_unwind_slot_count" \in g.errors <=> "invalid_unwind_slot_count" \in f.errors
      /\ "unknown_unwind_code" \in g.errors <=> "unknown_unwind_code" \in f.errors
      /\ "invalid_unwind_info" \in f.errors => "invalid_unwind_info" \in g.errors
  BY DEF CodeErrors
<1> QED
  BY <1>1 DEF X64Ended, WithoutCodes, SlotsEnd

\* A call that an error ends.
LEMMA InfoEndsWithErrors ==
    ASSUME X64Inv, x64Pc \in InInfo, NEW errors \in SUBSET X64ErrorNames,
           \/ "invalid_unwind_info" \in errors
           \/ X64Ended(x64Dir, Innermost) /\ errors \cap CodeErrors = {},
           UpdateInnermost(FunctionWith(errors)), Returns, x64Dir' = x64Dir, x64Slot' \in Nat
    PROVE  X64Inv'
<1> DEFINE f == FunctionWith(errors)
<1>1. /\ f \in X64Function(x64Dir) /\ f.errors = Innermost.errors \cup errors
      /\ f.codes = Innermost.codes /\ f.info = Innermost.info /\ f.extra = "none"
  BY InfoErrors
<1>2. X64Turn(x64Pc, x64Dir, Innermost, x64Slot)
  BY InfoIsThere
<1> HIDE DEF f
<1>3. X64Settled(x64Dir, f)
  BY <1>1, <1>2 DEF X64Settled, X64Turn
<1>4. CASE "invalid_unwind_info" \in errors
  <2>1. X64Ended(x64Dir, f)
    BY <1>1, <1>4 DEF X64Ended, WithoutCodes
  <2> QED
    BY <1>1, <1>3, <2>1, InfoEnds DEF f
<1>5. CASE X64Ended(x64Dir, Innermost) /\ errors \cap CodeErrors = {}
  <2>1. X64Ended(x64Dir, f)
    BY <1>1, <1>5, StillEnded
  <2> QED
    BY <1>1, <1>3, <2>1, InfoEnds DEF f
<1> QED
  BY <1>4, <1>5

LEMMA InfoReadInv == ASSUME X64Inv, InfoRead PROVE X64Inv'
<1>1. x64Pc = "info" /\ x64Pc \in InInfo /\ x64Dir' = x64Dir /\ x64Slot' = 0
  BY DEF InfoRead, InInfo
<1>2. AlignmentErrors \in SUBSET {"unaligned_unwind_info"}
  BY DEF AlignmentErrors
<1>3. CASE ~Info.head
  <2>1. AlignmentErrors \cup {"invalid_unwind_info"} \in SUBSET X64ErrorNames
    BY <1>2 DEF X64ErrorNames
  <2>2. UpdateInnermost(FunctionWith(AlignmentErrors \cup {"invalid_unwind_info"})) /\ Returns
    BY <1>3 DEF InfoRead
  <2> QED
    BY <1>1, <2>1, <2>2, InfoEndsWithErrors
<1>4. CASE Info.head
  <2> DEFINE f == FunctionWith(AlignmentErrors)
  <2>1. x64Pc' = "codes" /\ x64Pc' \in InInfo /\ x64Rva' = x64Rva /\ UpdateInnermost(f)
    BY <1>4 DEF InfoRead, InInfo
  <2>2. AlignmentErrors \in SUBSET X64ErrorNames
    BY <1>2 DEF X64ErrorNames
  <2>3. /\ f \in X64Function(x64Dir) /\ f.errors = Innermost.errors \cup AlignmentErrors
        /\ f.codes = Innermost.codes /\ f.info = Innermost.info
        /\ f.extra = "none" /\ f.behindAt = -1
    BY <1>1, <2>2, InfoErrors
  <2> HIDE DEF f
  <2>4. /\ X64Turn("info", x64Dir, Innermost, x64Slot) /\ Len(Info.slots) \in Nat
        /\ Info = x64Dir.infos[Innermost.info]
    BY <1>1, InfoIsThere
  <2>5. /\ f.codes = <<>>
        /\ f.errors \subseteq {"unaligned_runtime_function_entry", "unaligned_unwind_info"}
    BY <1>2, <2>3, <2>4 DEF X64Turn
  <2>6. SlotsReach(x64Dir.infos[f.info], f.codes, f.errors, x64Slot')
    BY <1>1, <2>5 DEF SlotsReach, SlotBehind, BehindEpilog
  <2>7. X64Turn(x64Pc', x64Dir, f, x64Slot')
    BY <1>1, <2>1, <2>3, <2>4, <2>5, <2>6 DEF X64Turn
  <2> QED
    BY <1>1, <2>1, <2>3, <2>7, InfoGoesOn
<1> QED
  BY <1>3, <1>4

LEMMA CodesUnreadInv == ASSUME X64Inv, CodesUnread PROVE X64Inv'
<1>1. {"invalid_unwind_info"} \in SUBSET X64ErrorNames
  BY DEF X64ErrorNames
<1> QED
  BY <1>1, InfoEndsWithErrors DEF CodesUnread, InInfo, X64Inv, X64Place

\* The codes of a version are those whose slots the comments tell; but for the
\* epilog, the nodes of their types are these slots.
LEMMA KnownCodes ==
    ASSUME NEW code, NEW version
    PROVE  Known(code, version) <=> code \in CodesOf(version)
<1>1. DOMAIN NodeCount = CodesOfOneSlot \cup CodesOfTwoSlots \cup CodesOfThreeSlots
  BY DEF NodeCount, NodesOfFrameCodes, NodesOfOtherCodes,
         CodesOfOneSlot, CodesOfTwoSlots, CodesOfThreeSlots
<1>2. \A c \in DOMAIN NodeCount : NodeCount[c] # -1
  BY DEF NodeCount, NodesOfFrameCodes, NodesOfOtherCodes
<1> QED
  BY <1>1, <1>2 DEF Known, Nodes, CodesOf

LEMMA SlotsOfKnown ==
    ASSUME NEW code, NEW version, Known(code, version)
    PROVE  /\ Nodes(code, version) \in Nat
           /\ IF code = "epilog" THEN Nodes(code, version) = 0
              ELSE SlotsOf(code) = Nodes(code, version) + 1
<1>1. code \in DOMAIN NodeCount /\ Nodes(code, version) = NodeCount[code]
  BY DEF Known, Nodes
<1>2. /\ DOMAIN NodesOfFrameCodes = {"push_nonvol", "alloc_large_1", "alloc_large_2", "alloc_small",
            "set_fpreg", "save_nonvol", "save_nonvol_far"}
      /\ DOMAIN NodesOfOtherCodes = {"epilog", "spare", "save_xmm128", "save_xmm128_far",
            "push_machframe", "set_fpreg_large"}
  BY DEF NodesOfFrameCodes, NodesOfOtherCodes
<1>3. NodeCount = [c \in DOMAIN NodesOfFrameCodes \cup DOMAIN NodesOfOtherCodes |->
            IF c \in DOMAIN NodesOfFrameCodes THEN NodesOfFrameCodes[c] ELSE NodesOfOtherCodes[c]]
  BY DEF NodeCount
<1>4. CASE code \in DOMAIN NodesOfFrameCodes
  <2>1. NodeCount[code] = NodesOfFrameCodes[code]
    BY <1>3, <1>4
  <2>2. NodesOfFrameCodes[code] \in Nat /\ SlotsOf(code) = NodesOfFrameCodes[code] + 1
    BY <1>2, <1>4 DEF NodesOfFrameCodes, SlotsOf, CodesOfOneSlot, CodesOfTwoSlots
  <2> QED
    BY <1>1, <1>2, <1>4, <2>1, <2>2
<1>5. CASE code \in DOMAIN NodesOfOtherCodes
  <2>1. NodeCount[code] = NodesOfOtherCodes[code]
    BY <1>2, <1>3, <1>5
  <2>2. /\ NodesOfOtherCodes[code] \in Nat
        /\ IF code = "epilog" THEN NodesOfOtherCodes[code] = 0
           ELSE SlotsOf(code) = NodesOfOtherCodes[code] + 1
    BY <1>2, <1>5 DEF NodesOfOtherCodes, SlotsOf, CodesOfOneSlot, CodesOfTwoSlots
  <2> QED
    BY <1>1, <2>1, <2>2
<1> QED
  BY <1>1, <1>3, <1>4, <1>5

LEMMA UnknownCodeInv == ASSUME X64Inv, UnknownCode PROVE X64Inv'
<1> DEFINE f == FunctionWith({"unknown_unwind_code"})
<1>1. /\ x64Pc = "codes" /\ x64Pc \in InInfo /\ UpdateInnermost(f)
      /\ x64Pc' = "behind" /\ x64Pc' \in InInfo /\ UNCHANGED <<x64Dir, x64Rva, x64Slot>>
  BY DEF UnknownCode, SlotsLeft, InInfo
<1>2. {"unknown_unwind_code"} \in SUBSET X64ErrorNames
  BY DEF X64ErrorNames
<1>3. /\ f \in X64Function(x64Dir) /\ f.errors = Innermost.errors \cup {"unknown_unwind_code"}
      /\ f.info = Innermost.info /\ f.extra = "none" /\ f.behindAt = -1
  BY <1>1, <1>2, InfoErrors
<1> HIDE DEF f
<1>4. /\ X64Turn("codes", x64Dir, Innermost, x64Slot) /\ Info = x64Dir.infos[Innermost.info]
      /\ Info.slots \in Seq(STRING) /\ x64Slot < Len(Info.slots) /\ f.codes = Innermost.codes
      /\ NextCode = Info.slots[x64Slot + 1] /\ ~Known(NextCode, Info.version)
  BY <1>1, <1>2, InfoIsThere, InfoErrors DEF UnknownCode, SlotsLeft, NextCode, f
<1>5. NextCode \notin CodesOf(Info.version)
  BY <1>4, KnownCodes
<1>6. SlotsReach(Info, Innermost.codes, Innermost.errors, x64Slot)
  BY <1>4 DEF X64Turn
<1>7. SlotsEnd(Info, f.codes, f.errors)
  BY <1>3, <1>4, <1>5, <1>6 DEF SlotsReach, SlotsEnd
<1>8. X64Turn(x64Pc', x64Dir, f, x64Slot')
  BY <1>1, <1>3, <1>4, <1>7 DEF X64Turn, X64Ended
<1> QED
  BY <1>1, <1>3, <1>8, InfoGoesOn DEF X64Inv, X64Place

\* One more code behind those that take the slots so far.
LEMMA CodeAppended ==
    ASSUME NEW info, NEW codes \in X64Codes, NEW slot \in Nat, NEW errors, info.slots \in Seq(STRING),
           SlotsInOrder(info, codes), SlotsReach(info, codes, errors, slot),
           slot < Len(info.slots),
           NEW c \in [code : STRING, slot : Nat, loaded : BOOLEAN], c.slot = slot,
           c.code = info.slots[slot + 1],
           c.loaded <=> c.code = "epilog" \/ slot + SlotsOf(c.code) <= Len(info.slots)
    PROVE  SlotsInOrder(info, Append(codes, c))
<1> DEFINE new == Append(codes, c)
<1>1. /\ codes \in Seq([code : STRING, slot : Nat, loaded : BOOLEAN])
      /\ Len(new) = Len(codes) + 1 /\ Len(codes) \in Nat /\ new[Len(codes) + 1] = c
      /\ DOMAIN new = 1 .. Len(codes) + 1 /\ DOMAIN codes = 1 .. Len(codes)
      /\ \A j \in DOMAIN codes : new[j] = codes[j]
  BY DEF X64Codes
<1> HIDE DEF new
<1>2. IF BehindEpilog(codes, Len(codes)) THEN slot > codes[Len(codes)].slot
      ELSE slot = SlotBehind(codes, Len(codes))
  BY DEF SlotsReach
<1>3. ASSUME NEW j \in DOMAIN new, j = Len(codes) + 1
      PROVE  /\ new[j].slot < Len(info.slots) /\ new[j].code = info.slots[new[j].slot + 1]
             /\ IF BehindEpilog(new, j - 1) THEN new[j].slot > new[j - 1].slot
                ELSE new[j].slot = SlotBehind(new, j - 1)
             /\ new[j].loaded <=> BehindEpilog(new, j) \/ SlotBehind(new, j) <= Len(info.slots)
  <2>1. j # 0 /\ j - 1 = Len(codes) /\ new[j] = c
    BY <1>1, <1>3
  <2>2. /\ BehindEpilog(new, j - 1) <=> BehindEpilog(codes, Len(codes))
        /\ SlotBehind(new, j - 1) = SlotBehind(codes, Len(codes))
        /\ Len(codes) # 0 => new[j - 1] = codes[Len(codes)]
    BY <1>1, <2>1 DEF BehindEpilog, SlotBehind
  <2>3. /\ BehindEpilog(new, j) <=> c.code = "epilog"
        /\ SlotBehind(new, j) = slot + SlotsOf(c.code)
    BY <2>1 DEF BehindEpilog, SlotBehind
  <2>4. new[j].loaded <=> BehindEpilog(new, j) \/ SlotBehind(new, j) <= Len(info.slots)
    BY <2>1, <2>3
  <2>5. CASE BehindEpilog(new, j - 1)
    BY <1>2, <2>1, <2>2, <2>4, <2>5 DEF BehindEpilog
  <2>6. CASE ~BehindEpilog(new, j - 1)
    BY <1>2, <2>1, <2>2, <2>4, <2>6
  <2> QED
    BY <2>5, <2>6
<1>4. ASSUME NEW j \in DOMAIN codes
      PROVE  /\ new[j].slot < Len(info.slots) /\ new[j].code = info.slots[new[j].slot + 1]
             /\ IF BehindEpilog(new, j - 1) THEN new[j].slot > new[j - 1].slot
                ELSE new[j].slot = SlotBehind(new, j - 1)
             /\ new[j].loaded <=> BehindEpilog(new, j) \/ SlotBehind(new, j) <= Len(info.slots)
  <2>1. new[j] = codes[j] /\ (j - 1 = 0 \/ (j - 1 \in DOMAIN codes /\ new[j - 1] = codes[j - 1]))
    BY <1>1
  <2>2. /\ BehindEpilog(new, j - 1) <=> BehindEpilog(codes, j - 1)
        /\ SlotBehind(new, j - 1) = SlotBehind(codes, j - 1)
        /\ BehindEpilog(new, j) <=> BehindEpilog(codes, j)
        /\ SlotBehind(new, j) = SlotBehind(codes, j)
    BY <2>1 DEF BehindEpilog, SlotBehind
  <2>3. /\ codes[j].slot < Len(info.slots) /\ codes[j].code = info.slots[codes[j].slot + 1]
        /\ IF BehindEpilog(codes, j - 1) THEN codes[j].slot > codes[j - 1].slot
           ELSE codes[j].slot = SlotBehind(codes, j - 1)
        /\ codes[j].loaded <=> BehindEpilog(codes, j) \/ SlotBehind(codes, j) <= Len(info.slots)
    BY <1>4 DEF SlotsInOrder
  <2>4. CASE BehindEpilog(codes, j - 1)
    <3>1. j - 1 # 0
      BY <2>4 DEF BehindEpilog
    <3> QED
      BY <2>1, <2>2, <2>3, <2>4, <3>1
  <2>5. CASE ~BehindEpilog(codes, j - 1)
    BY <2>1, <2>2, <2>3, <2>5
  <2> QED
    BY <2>4, <2>5
<1>5. \A j \in DOMAIN new : j = Len(codes) + 1 \/ j \in DOMAIN codes
  BY <1>1
<1>6. SlotsInOrder(info, new)
  BY <1>3, <1>4, <1>5 DEF SlotsInOrder
<1> QED
  BY <1>6 DEF new

LEMMA UnwindCodeInv == ASSUME X64Inv, UnwindCode PROVE X64Inv'
<1> DEFINE size == Nodes(NextCode, Info.version) + 1
           fits == x64Slot + size <= Len(Info.slots)
           new == [code |-> NextCode, slot |-> x64Slot, loaded |-> fits]
           codes == Append(Innermost.codes, new)
           errors == OrderErrors(NextCode) \cup IF fits THEN {} ELSE {"invalid_unwind_slot_count"}
           f == [FunctionWith(errors) EXCEPT !.codes = codes]
           next == IF fits THEN x64Slot + size ELSE Len(Info.slots)
<1>1. /\ x64Pc = "codes" /\ x64Pc \in InInfo /\ x64Slot < Len(Info.slots)
      /\ Known(NextCode, Info.version)
      /\ UpdateInnermost(f) /\ x64Slot' = next
      /\ UNCHANGED <<x64Dir, x64Pc, x64Rva>>
  BY DEF UnwindCode, SlotsLeft, InInfo
<1>2. /\ Innermost \in X64Function(x64Dir) /\ Info.slots \in Seq(STRING) /\ Len(Info.slots) \in Nat
      /\ Info = x64Dir.infos[Innermost.info]
      /\ X64Turn(x64Pc, x64Dir, Innermost, x64Slot) /\ x64Slot \in Nat
  BY <1>1, InfoIsThere DEF X64Inv, X64Place
<1>3. /\ NextCode \in STRING /\ size \in Nat \ {0} /\ NextCode = Info.slots[x64Slot + 1]
      /\ IF NextCode = "epilog" THEN size = 1 ELSE SlotsOf(NextCode) = size
  <2>1. x64Slot + 1 \in DOMAIN Info.slots
    BY <1>1, <1>2
  <2>2. /\ Nodes(NextCode, Info.version) \in Nat
        /\ IF NextCode = "epilog" THEN Nodes(NextCode, Info.version) = 0
           ELSE SlotsOf(NextCode) = Nodes(NextCode, Info.version) + 1
    BY <1>1, SlotsOfKnown
  <2>3. NextCode = Info.slots[x64Slot + 1] /\ NextCode \in STRING
    BY <1>2, <2>1 DEF NextCode
  <2> QED
    BY <2>2, <2>3
<1>4. Innermost.codes \in X64Codes /\ new \in [code : STRING, slot : Nat, loaded : BOOLEAN]
  BY <1>2, <1>3 DEF X64Function
<1>5. codes \in X64Codes
  BY <1>4 DEF X64Codes
<1>6. /\ errors \in SUBSET X64ErrorNames
      /\ "invalid_chained_runtime_function_entry" \notin errors
      /\ "unknown_unwind_code" \notin errors
      /\ "invalid_unwind_slot_count" \in errors <=> ~fits
  BY DEF X64ErrorNames, OrderErrors
<1>7. next \in 0 .. Len(Info.slots) /\ next \in Nat
  BY <1>2, <1>3
<1>8. /\ f \in X64Function(x64Dir) /\ f.errors = Innermost.errors \cup errors /\ f.codes = codes
      /\ f.info = Innermost.info /\ f.extra = "none" /\ f.behindAt = -1
  <2> DEFINE g == FunctionWith(errors)
  <2>1. /\ g \in X64Function(x64Dir) /\ g.errors = Innermost.errors \cup errors
        /\ g.info = Innermost.info /\ g.extra = "none" /\ g.behindAt = -1
    BY <1>1, <1>6, InfoErrors
  <2> HIDE DEF g, codes, errors
  <2>2. LET h == [g EXCEPT !.codes = codes] IN
        /\ h \in X64Function(x64Dir) /\ h.errors = g.errors /\ h.codes = codes
        /\ h.info = g.info /\ h.extra = g.extra /\ h.behindAt = g.behindAt
    BY <1>5, <2>1 DEF X64Function
  <2> QED
    BY <2>1, <2>2 DEF g
<1>9. SlotsInOrder(Info, Innermost.codes)
        /\ SlotsReach(Info, Innermost.codes, Innermost.errors, x64Slot)
  BY <1>1, <1>2 DEF X64Turn
<1>10. "invalid_unwind_slot_count" \notin Innermost.errors
  BY <1>1, <1>9 DEF SlotsReach
<1>11. /\ new.code = NextCode /\ new.slot = x64Slot
       /\ new.loaded <=> x64Slot + size <= Len(Info.slots)
  OBVIOUS
<1> HIDE DEF new, errors
<1>12. new.loaded <=> new.code = "epilog" \/ x64Slot + SlotsOf(new.code) <= Len(Info.slots)
  <2> HIDE DEF size
  <2>1. CASE NextCode = "epilog"
    BY <1>1, <1>2, <1>3, <1>11, <2>1
  <2>2. CASE NextCode # "epilog"
    BY <1>3, <1>11, <2>2
  <2> QED
    BY <2>1, <2>2
<1>13. SlotsInOrder(Info, codes)
  BY <1>1, <1>2, <1>3, <1>4, <1>9, <1>11, <1>12, CodeAppended
<1>14. Len(codes) # 0 /\ codes[Len(codes)] = new
  BY <1>4 DEF X64Codes
<1>15. SlotsReach(Info, codes, f.errors, next)
  <2>1. /\ BehindEpilog(codes, Len(codes)) <=> NextCode = "epilog"
        /\ SlotBehind(codes, Len(codes)) = x64Slot + SlotsOf(NextCode)
        /\ codes[Len(codes)].slot = x64Slot
    BY <1>11, <1>14 DEF BehindEpilog, SlotBehind
  <2>2. "invalid_unwind_slot_count" \in f.errors <=> ~(x64Slot + size <= Len(Info.slots))
    BY <1>6, <1>8, <1>10
  <2>3. next = IF x64Slot + size <= Len(Info.slots) THEN x64Slot + size ELSE Len(Info.slots)
    OBVIOUS
  <2> HIDE DEF codes, next, size, f, fits
  <2>4. CASE NextCode = "epilog"
    BY <1>1, <1>2, <1>3, <2>1, <2>2, <2>3, <2>4 DEF SlotsReach
  <2>5. CASE NextCode # "epilog"
    BY <1>1, <1>2, <1>3, <2>1, <2>2, <2>3, <2>5 DEF SlotsReach
  <2> QED
    BY <2>4, <2>5
<1>16. "unknown_unwind_code" \notin f.errors
       /\ "invalid_chained_runtime_function_entry" \notin f.errors
  BY <1>1, <1>2, <1>6, <1>8 DEF X64Turn
<1> HIDE DEF f, next, codes
<1>17. X64Turn(x64Pc', x64Dir, f, x64Slot')
  BY <1>1, <1>2, <1>7, <1>8, <1>13, <1>15, <1>16 DEF X64Turn
<1> QED
  BY <1>1, <1>7, <1>8, <1>17, InfoGoesOn

LEMMA EndOfCodesInv == ASSUME X64Inv, EndOfCodes PROVE X64Inv'
<1> DEFINE errors == IF Codes("set_fpreg") /\ Codes("set_fpreg_large")
                     THEN {"both_set_fpreg_types_used"} ELSE {}
           f == FunctionWith(errors)
<1>1. /\ x64Pc = "codes" /\ x64Pc \in InInfo /\ x64Slot = Len(Info.slots) /\ UpdateInnermost(f)
      /\ x64Pc' = "behind" /\ x64Pc' \in InInfo /\ UNCHANGED <<x64Dir, x64Rva, x64Slot>>
  BY DEF EndOfCodes, InInfo
<1>2. /\ errors \in SUBSET X64ErrorNames /\ errors \cap CodeErrors = {}
      /\ "invalid_chained_runtime_function_entry" \notin errors
  BY DEF X64ErrorNames, CodeErrors
<1> HIDE DEF errors
<1>3. /\ f \in X64Function(x64Dir) /\ f.errors = Innermost.errors \cup errors
      /\ f.codes = Innermost.codes /\ f.info = Innermost.info
      /\ f.extra = "none" /\ f.behindAt = -1
  BY <1>1, <1>2, InfoErrors
<1> HIDE DEF f
<1>4. /\ X64Turn("codes", x64Dir, Innermost, x64Slot) /\ Info = x64Dir.infos[Innermost.info]
  BY <1>1, InfoIsThere
<1>5. SlotsEnd(Info, Innermost.codes, Innermost.errors)
  BY <1>1, <1>4 DEF X64Turn, SlotsReach, SlotsEnd
<1>6. X64Ended(x64Dir, f)
  BY <1>2, <1>3, <1>4, <1>5, StillEnded DEF X64Ended
<1>7. X64Turn(x64Pc', x64Dir, f, x64Slot')
  BY <1>1, <1>2, <1>3, <1>4, <1>6 DEF X64Turn
<1> QED
  BY <1>1, <1>3, <1>7, InfoGoesOn DEF X64Inv, X64Place

LEMMA BehindInv ==
    ASSUME X64Inv, NothingBehind \/ FlagsDisagree \/ HandlerUnread
    PROVE  X64Inv'
<1>1. /\ x64Pc = "behind" /\ x64Pc \in InInfo /\ Returns /\ UNCHANGED <<x64Dir, x64Slot>>
      /\ x64Slot \in Nat
  BY DEF NothingBehind, FlagsDisagree, HandlerUnread, InInfo, X64Inv, X64Place
<1>0. X64Ended(x64Dir, Innermost)
  BY <1>1, InfoIsThere DEF X64Turn
<1>2. CASE NothingBehind
  <2>1. Innermost \in X64Function(x64Dir) /\ X64Settled(x64Dir, Innermost)
    BY <1>1, InfoIsThere, TurnIsSettled
  <2>2. UpdateInnermost(Innermost)
    BY <1>1, <1>2, InnermostKept DEF NothingBehind
  <2> QED
    BY <1>0, <1>1, <2>1, <2>2, InfoEnds
<1>3. CASE FlagsDisagree
  <2>1. /\ {"invalid_unwind_info_flags"} \in SUBSET X64ErrorNames
        /\ {"invalid_unwind_info_flags"} \cap CodeErrors = {}
    BY DEF X64ErrorNames, CodeErrors
  <2> QED
    BY <1>0, <1>1, <1>3, <2>1, InfoEndsWithErrors DEF FlagsDisagree
<1>4. CASE HandlerUnread
  <2>1. /\ {"invalid_exception_handler_rva"} \in SUBSET X64ErrorNames
        /\ {"invalid_exception_handler_rva"} \cap CodeErrors = {}
    BY DEF X64ErrorNames, CodeErrors
  <2> QED
    BY <1>0, <1>1, <1>4, <2>1, InfoEndsWithErrors DEF HandlerUnread
<1> QED
  BY <1>2, <1>3, <1>4

\* What is behind the slots.
LEMMA PaddedIsNumber == ASSUME NEW count \in Nat PROVE Padded(count) \in Nat
BY DEF Padded

LEMMA BehindPosition ==
    ASSUME X64Inv, x64Pc \in InInfo
    PROVE  BehindCodes \in Nat /\ At(BehindCodes) = Info.behind
<1>1. Len(Info.slots) \in Nat
  BY InfoIsThere
<1>2. Padded(Len(Info.slots)) \in Nat
  BY <1>1, PaddedIsNumber
<1> QED
  BY <1>2 DEF BehindCodes, At, HeadSize, SlotSize

LEMMA HandlerReadInv == ASSUME X64Inv, HandlerRead PROVE X64Inv'
<1> DEFINE errors == ScopeErrors \cup IF Info.target THEN {} ELSE {"invalid_exception_handler_rva"}
           g == FunctionWith(errors)
           f == [g EXCEPT !.extra = "handler", !.behindAt = BehindCodes, !.scopes = ScopesKept]
<1>1. /\ x64Pc = "behind" /\ x64Pc \in InInfo /\ UpdateInnermost(f) /\ Returns
      /\ UNCHANGED <<x64Dir, x64Slot>> /\ x64Slot \in Nat
  BY DEF HandlerRead, InInfo, X64Inv, X64Place
<1>2. /\ errors \in SUBSET X64ErrorNames /\ errors \cap CodeErrors = {}
      /\ "invalid_chained_runtime_function_entry" \notin errors
  BY DEF X64ErrorNames, ScopeErrors, CodeErrors
<1>3. ScopesKept \in Nat /\ BehindCodes \in Int
  <2>1. Info.records \in Nat /\ Info.readable \in Nat /\ max_c_specific_records \in Nat
    BY <1>1, InfoIsThere, X64DirectoriesAssumption DEF InfoType
  <2> QED
    BY <1>1, <2>1, BehindPosition DEF ScopesKept, WantedRecords
<1> HIDE DEF errors
<1>4. /\ g \in X64Function(x64Dir) /\ g.errors = Innermost.errors \cup errors
      /\ g.codes = Innermost.codes /\ g.info = Innermost.info
  BY <1>1, <1>2, InfoErrors
<1> HIDE DEF g
<1>5. /\ f \in X64Function(x64Dir) /\ f.errors = g.errors /\ f.codes = g.codes
      /\ f.info = g.info /\ f.extra = "handler"
  BY <1>3, <1>4 DEF X64Function
<1> HIDE DEF f
<1>6. X64Settled(x64Dir, f)
  BY <1>1, <1>2, <1>4, <1>5, InfoIsThere DEF X64Settled, X64Turn
<1>7. X64Ended(x64Dir, Innermost)
  BY <1>1, InfoIsThere DEF X64Turn
<1>8. X64Ended(x64Dir, f)
  BY <1>2, <1>4, <1>5, <1>7, StillEnded
<1> QED
  BY <1>1, <1>5, <1>6, <1>8, InfoEnds

\* One more function in the chain: the innermost one, which is settled, now
\* refers to it.
LEMMA ChainGrows ==
    ASSUME X64Inv, x64Pc \in InInfo, NEW outer \in X64Function(x64Dir),
           NEW inner \in X64Function(x64Dir),
           X64Settled(x64Dir, outer), X64Ended(x64Dir, outer), X64Settled(x64Dir, inner),
           x64Functions' = [x64Functions EXCEPT ![Len(x64Functions)] =
                [Chain EXCEPT ![Len(Chain)] = outer] \o <<inner>>],
           x64Dir' = x64Dir
    PROVE  /\ x64Functions' \in Seq(X64Chains(x64Dir)) /\ x64Functions' # <<>>
           /\ Innermost' = inner
           /\ OthersEnded'
<1> DEFINE n == Len(Chain)
           changed == [Chain EXCEPT ![n] = outer]
           c == changed \o <<inner>>
<1>1. Chain \in Seq(X64Function(x64Dir)) /\ n \in DOMAIN Chain /\ n \in Nat \ {0}
      /\ Len(x64Functions) \in DOMAIN x64Functions
  BY InfoIsThere
<1>2. ChainEnded(Chain)
  BY <1>1 DEF X64Inv, OthersEnded, IsInnermost, Chain, ChainEnded
<1>3. /\ changed \in Seq(X64Function(x64Dir)) /\ Len(changed) = n
      /\ \A j \in 1 .. n : changed[j] = IF j = n THEN outer ELSE Chain[j]
  BY <1>1
<1>10. n \in Nat /\ n \in DOMAIN Chain
  BY <1>1
<1> HIDE DEF changed, n
<1>4. /\ c \in Seq(X64Function(x64Dir)) /\ Len(c) = n + 1 /\ c[n + 1] = inner
      /\ \A j \in 1 .. n : c[j] = changed[j]
  BY <1>1, <1>3
<1> HIDE DEF c
<1>5. c \in X64Chains(x64Dir)
  BY <1>1, <1>4 DEF X64Chains
<1>6. ChainEnded(c)
  <2> SUFFICES ASSUME NEW j \in DOMAIN c
               PROVE  /\ X64Settled(x64Dir, c[j])
                      /\ j = Len(c) \/ X64Ended(x64Dir, c[j])
    BY DEF ChainEnded
  <2>1. CASE j = n + 1
    BY <1>4, <2>1
  <2>2. CASE j \in 1 .. n
    <3>1. c[j] = IF j = n THEN outer ELSE Chain[j]
      BY <1>3, <1>4, <2>2
    <3>2. j \in DOMAIN Chain
      BY <1>1, <2>2 DEF n
    <3>3. X64Settled(x64Dir, Chain[j]) /\ (j = n \/ X64Ended(x64Dir, Chain[j]))
      BY <1>2, <3>2 DEF ChainEnded, n
    <3> QED
      BY <3>1, <3>3
  <2> QED
    BY <1>1, <1>4, <2>1, <2>2
<1>7. x64Functions' = [x64Functions EXCEPT ![Len(x64Functions)] = c]
  BY DEF c, changed, n
<1>8. Chain' = c
  BY <1>5, <1>6, <1>7, ChainReplaced
<1>9. Innermost' = inner
  BY <1>4, <1>8 DEF Innermost
<1> QED
  BY <1>5, <1>6, <1>7, <1>9, ChainReplaced

\* How a function begins.
LEMMA FunctionBegins ==
    ASSUME NEW d, NEW name \in {"none"} \cup DOMAIN d.infos, NEW aligned
    PROVE  LET f == FunctionAt(name, aligned) IN
           /\ f \in X64Function(d) /\ f.codes = <<>> /\ f.extra = "none" /\ f.behindAt = -1
           /\ f.errors \subseteq {"unaligned_runtime_function_entry"} /\ f.info = name
<1> DEFINE errors == IF aligned THEN {} ELSE {"unaligned_runtime_function_entry"}
           f == FunctionAt(name, aligned)
<1>1. /\ f = [RuntimeFunction(name) EXCEPT !.errors = errors]
      /\ RuntimeFunction(name) = [info |-> name, codes |-> <<>>, extra |-> "none",
                                  behindAt |-> -1, scopes |-> 0, errors |-> {}]
  BY Zenon DEF FunctionAt, RuntimeFunction
<1>2. errors \in SUBSET X64ErrorNames /\ errors \subseteq {"unaligned_runtime_function_entry"}
  BY DEF X64ErrorNames
<1>3. <<>> \in X64Codes
  BY DEF X64Codes
<1> HIDE DEF errors, f
<1>4. RuntimeFunction(name) \in X64Function(d)
  BY <1>1, <1>3 DEF X64Function
<1>5. /\ f \in X64Function(d) /\ f.codes = <<>> /\ f.extra = "none" /\ f.behindAt = -1
      /\ f.errors = errors /\ f.info = name
  BY <1>1, <1>2, <1>4 DEF X64Function
<1> QED
  BY <1>2, <1>5 DEF f

LEMMA ChainedInv == ASSUME X64Inv, Chained PROVE X64Inv'
<1> DEFINE entry == At(BehindCodes)
           invalid == entry \in {"unread", "zero"}
           errors == IF invalid THEN {"invalid_chained_runtime_function_entry"} ELSE {}
           outer == [Innermost EXCEPT !.extra = "chained", !.behindAt = BehindCodes,
                                      !.errors = @ \cup errors]
           inner == FunctionAt(IF invalid THEN "none" ELSE entry, Info.aligned)
<1>1. /\ x64Pc = "behind" /\ x64Pc \in InInfo /\ Info.flags = {"chaininfo"}
      /\ UNCHANGED <<x64Dir, x64Slot>> /\ x64Slot \in Nat
  BY DEF Chained, InInfo, X64Inv, X64Place
<1>2. /\ Innermost \in X64Function(x64Dir) /\ IsX64Directory(x64Dir)
      /\ Innermost.info \in DOMAIN x64Dir.infos /\ Info = x64Dir.infos[Innermost.info]
      /\ X64Turn(x64Pc, x64Dir, Innermost, x64Slot)
  BY <1>1, InfoIsThere
<1>3. entry = Info.behind /\ BehindCodes \in Int
  BY <1>1, BehindPosition
<1>4. entry \in {"unread", "zero"} \cup DOMAIN x64Dir.infos
  BY <1>1, <1>2, <1>3 DEF IsX64Directory
<1>5. CASE ~invalid /\ Len(Chain) = StackDepth
  <2>1. x64Pc' = "exhausted" /\ x64Pc' \in InInfo /\ UNCHANGED <<x64Rva, x64Functions>>
    BY <1>5 DEF Chained, InInfo
  <2>2. X64Turn(x64Pc', x64Dir, Innermost, x64Slot')
    BY <1>1, <1>2, <2>1 DEF X64Turn
  <2> QED
    BY <1>1, <1>2, <2>1, <2>2, InnermostKept, InfoGoesOn
<1>6. CASE invalid \/ Len(Chain) # StackDepth
  <2>1. /\ x64Functions' = [x64Functions EXCEPT ![Len(x64Functions)] =
                [Chain EXCEPT ![Len(Chain)] = outer] \o <<inner>>]
        /\ IF invalid THEN Returns ELSE x64Pc' = "info" /\ UNCHANGED x64Rva
    BY <1>6 DEF Chained
  <2>2. errors \in SUBSET X64ErrorNames /\ errors \cap CodeErrors = {}
    BY DEF X64ErrorNames, CodeErrors
  <2>3. /\ outer \in X64Function(x64Dir) /\ outer.errors = Innermost.errors \cup errors
        /\ outer.codes = Innermost.codes /\ outer.info = Innermost.info
        /\ outer.extra = "chained"
    <3> HIDE DEF errors
    <3> QED
      BY <1>2, <1>3, <2>2 DEF X64Function
  <2>4. X64Settled(x64Dir, outer)
    <3>1. "invalid_chained_runtime_function_entry" \in errors <=> Info.behind \in {"unread", "zero"}
      BY <1>3
    <3> HIDE DEF outer, errors
    <3> QED
      BY <1>1, <1>2, <2>3, <3>1 DEF X64Settled, X64Turn
  <2>10. X64Ended(x64Dir, outer)
    <3> HIDE DEF outer, errors
    <3> QED
      BY <1>1, <1>2, <2>2, <2>3, StillEnded DEF X64Turn
  <2>5. /\ inner \in X64Function(x64Dir) /\ inner.codes = <<>> /\ inner.extra = "none"
        /\ inner.behindAt = -1 /\ inner.errors \subseteq {"unaligned_runtime_function_entry"}
        /\ inner.info = IF invalid THEN "none" ELSE entry
    <3> DEFINE name == IF invalid THEN "none" ELSE entry
    <3>1. name \in {"none"} \cup DOMAIN x64Dir.infos
      BY <1>4
    <3>2. inner = FunctionAt(name, Info.aligned)
      OBVIOUS
    <3> HIDE DEF name, inner
    <3>3. /\ inner \in X64Function(x64Dir) /\ inner.codes = <<>> /\ inner.extra = "none"
          /\ inner.behindAt = -1 /\ inner.errors \subseteq {"unaligned_runtime_function_entry"}
          /\ inner.info = name
      BY <3>1, <3>2, FunctionBegins
    <3> QED
      BY <3>3 DEF name
  <2> HIDE DEF inner, outer
  <2>6. X64Settled(x64Dir, inner)
    BY <2>5 DEF X64Settled, SlotsInOrder
  <2>7. /\ x64Functions' \in Seq(X64Chains(x64Dir)) /\ x64Functions' # <<>>
        /\ Innermost' = inner
        /\ OthersEnded'
    BY <1>1, <2>1, <2>3, <2>4, <2>5, <2>6, <2>10, ChainGrows
  <2>8. CASE invalid
    <3>1. /\ x64Pc' = "entry" /\ x64Rva' = x64Rva + X64EntrySize
      BY <2>1, <2>8 DEF Returns
    <3>2. PICK k \in Nat : x64Rva = x64Dir.rva + 12 * k
      BY DEF X64Inv, X64Place, X64EntrySize
    <3>3. x64Dir.rva \in Nat
      BY <1>2, X64DirectoriesAssumption DEF IsX64Directory
    <3>4. x64Rva' = x64Dir'.rva + X64EntrySize * (k + 1) /\ k + 1 \in Nat
      BY <1>1, <3>1, <3>2, <3>3 DEF X64EntrySize
    <3>5. X64Ended(x64Dir', Innermost')
      BY <2>5, <2>7, <2>8 DEF X64Ended, WithoutCodes
    <3> QED
      BY <1>1, <1>2, <2>7, <3>1, <3>4, <3>5 DEF X64Inv, X64Place, InInfo
  <2>9. CASE ~invalid
    <3>1. x64Pc' = "info" /\ x64Pc' \in InInfo /\ UNCHANGED x64Rva
      BY <2>1, <2>9 DEF InInfo
    <3>2. X64Turn(x64Pc', x64Dir', Innermost', x64Slot')
      BY <1>1, <1>4, <2>5, <2>7, <2>9, <3>1 DEF X64Turn, SlotsInOrder
    <3>3. X64Place'
      BY <1>1, <1>2, <2>7, <3>1 DEF X64Inv, X64Place, InInfo
    <3> QED
      BY <2>7, <3>1, <3>2, <3>3 DEF X64Inv
  <2> QED
    BY <2>8, <2>9
<1> QED
  BY <1>5, <1>6

\* The walk over the entries.
LEMMA EntryIsThere ==
    ASSUME X64Inv, X64EntriesLeft
    PROVE  /\ IsX64Directory(x64Dir) /\ x64Pc = "entry" /\ x64Slot \in Nat
           /\ X64Entry \in {"unread", "zero"} \cup DOMAIN x64Dir.infos
           /\ x64Dir.rva \in Nat
<1>0. x64Rva <= (x64Dir.rva + x64Dir.size) - 12
  BY DEF X64EntriesLeft, X64LastValidRva, X64LastRva, X64EntrySize
<1>1. /\ IsX64Directory(x64Dir) /\ x64Pc = "entry" /\ x64Slot \in Nat
      /\ x64Rva <= (x64Dir.rva + x64Dir.size) - 12
  BY <1>0 DEF X64Inv, X64Place, X64EntriesLeft
<1>2. /\ x64Dir.rva \in Nat /\ x64Dir.size \in Nat
      /\ x64Dir.entries \in Seq({"unread", "zero"} \cup DOMAIN x64Dir.infos)
      /\ Len(x64Dir.entries) \in Nat
      /\ x64Dir.size < 12 * (Len(x64Dir.entries) + 1)
  BY <1>1, X64DirectoriesAssumption DEF IsX64Directory, X64EntrySize
<1>3. PICK k \in Nat : x64Rva = x64Dir.rva + 12 * k
  BY DEF X64Inv, X64Place, X64EntrySize
<1>4. (x64Rva - x64Dir.rva) \div 12 = k
  BY <1>2, <1>3
<1>5. k + 1 <= Len(x64Dir.entries)
  BY <1>1, <1>2, <1>3
<1>6. X64EntryIndex = k + 1 /\ k + 1 \in DOMAIN x64Dir.entries
  BY <1>2, <1>4, <1>5 DEF X64EntryIndex, X64EntrySize
<1> QED
  BY <1>1, <1>2, <1>6 DEF X64Entry

\* A chain of one function is added.
LEMMA ChainAdded ==
    ASSUME X64Inv, x64Pc \notin InInfo, IsX64Directory(x64Dir), NEW f \in X64Function(x64Dir),
           X64Settled(x64Dir, f), x64Functions' = Append(x64Functions, <<f>>), x64Dir' = x64Dir
    PROVE  /\ x64Functions' \in Seq(X64Chains(x64Dir)) /\ x64Functions' # <<>>
           /\ Innermost' = f
           /\ OthersEnded'
<1> DEFINE n == Len(x64Functions)
           c == <<f>>
<1>1. /\ c \in X64Chains(x64Dir) /\ Len(c) = 1 /\ c[1] = f /\ DOMAIN c = {1}
  BY DEF X64Chains
<1> HIDE DEF c
<1>2. x64Functions \in Seq(X64Chains(x64Dir)) /\ n \in Nat /\ x64Functions' = Append(x64Functions, c)
  BY DEF X64Inv, X64Place, c
<1>3. /\ x64Functions' \in Seq(X64Chains(x64Dir)) /\ Len(x64Functions') = n + 1
      /\ DOMAIN x64Functions' = 1 .. n + 1 /\ x64Functions'[n + 1] = c
      /\ \A i \in DOMAIN x64Functions : x64Functions'[i] = x64Functions[i]
  BY <1>1, <1>2
<1>4. Innermost' = f /\ x64Functions' # <<>>
  BY <1>1, <1>2, <1>3 DEF Innermost, Chain
<1>5. ASSUME NEW i \in DOMAIN x64Functions', NEW j \in DOMAIN x64Functions'[i]
      PROVE  /\ X64Settled(x64Dir', x64Functions'[i][j])
             /\ IsInnermost(i, j)' \/ X64Ended(x64Dir', x64Functions'[i][j])
  <2>1. CASE i = n + 1
    BY <1>1, <1>3, <1>5, <2>1 DEF IsInnermost
  <2>2. CASE i \in DOMAIN x64Functions
    <3>1. j \in DOMAIN x64Functions[i] /\ x64Functions'[i] = x64Functions[i]
      BY <1>3, <1>5, <2>2
    <3>2. IsInnermost(i, j) => x64Functions[i][j] = Innermost /\ x64Functions # <<>>
      BY <1>2, <2>2 DEF IsInnermost, Innermost, Chain
    <3> QED
      BY <2>2, <3>1, <3>2 DEF X64Inv, OthersEnded
  <2> QED
    BY <1>2, <1>3, <2>1, <2>2
<1> QED
  BY <1>3, <1>4, <1>5 DEF OthersEnded

\* A step that changes no function.
LEMMA SameInnermost ==
    ASSUME UNCHANGED <<x64Dir, x64Functions>>
    PROVE  Innermost' = Innermost /\ (OthersEnded => OthersEnded')
BY DEF Innermost, Chain, OthersEnded, IsInnermost

LEMMA X64EntryInv ==
    ASSUME X64Inv, X64EntryUnread \/ X64EntryZero \/ X64EntryRead
    PROVE  X64Inv'
<1>1. /\ IsX64Directory(x64Dir) /\ x64Pc = "entry" /\ x64Slot \in Nat
      /\ X64Entry \in {"unread", "zero"} \cup DOMAIN x64Dir.infos
      /\ x64Dir.rva \in Nat /\ x64Dir' = x64Dir /\ x64Slot' = x64Slot
  BY EntryIsThere DEF X64EntryUnread, X64EntryZero, X64EntryRead
<1>2. CASE X64EntryUnread
  <2> DEFINE g == FunctionAt("none", X64Aligned)
             f == [g EXCEPT !.errors = @ \cup {"invalid_runtime_function_entry"}]
  <2>1. /\ x64Functions' = Append(x64Functions, <<f>>) /\ x64Pc' = "end" /\ x64Rva' = x64Rva
    BY <1>2 DEF X64EntryUnread
  <2>2. /\ f \in X64Function(x64Dir) /\ f.extra = "none" /\ f.codes = <<>> /\ f.info = "none"
    <3>1. /\ g \in X64Function(x64Dir) /\ g.extra = "none" /\ g.codes = <<>> /\ g.info = "none"
      BY FunctionBegins
    <3>2. {"invalid_runtime_function_entry"} \in SUBSET X64ErrorNames
      BY DEF X64ErrorNames
    <3> HIDE DEF g
    <3> QED
      BY <3>1, <3>2 DEF X64Function
  <2> HIDE DEF f
  <2>3. X64Settled(x64Dir, f) /\ X64Ended(x64Dir, f)
    BY <2>2 DEF X64Settled, SlotsInOrder, X64Ended, WithoutCodes
  <2>4. x64Functions' \in Seq(X64Chains(x64Dir)) /\ Innermost' = f /\ OthersEnded'
    BY <1>1, <2>1, <2>2, <2>3, ChainAdded DEF InInfo
  <2> QED
    BY <1>1, <2>1, <2>3, <2>4 DEF X64Inv, X64Place, InInfo
<1>3. CASE X64EntryZero
  <2>1. /\ x64Rva' = x64Rva + X64EntrySize /\ UNCHANGED <<x64Functions, x64Pc>>
    BY <1>3 DEF X64EntryZero
  <2>2. PICK k \in Nat : x64Rva = x64Dir.rva + 12 * k
    BY DEF X64Inv, X64Place, X64EntrySize
  <2>3. x64Rva' = x64Dir'.rva + X64EntrySize * (k + 1) /\ k + 1 \in Nat
    BY <1>1, <2>1, <2>2 DEF X64EntrySize
  <2> QED
    BY <1>1, <2>1, <2>3, SameInnermost DEF X64Inv, X64Place, InInfo
<1>4. CASE X64EntryRead
  <2> DEFINE f == FunctionAt(X64Entry, X64Aligned)
  <2>1. /\ x64Functions' = Append(x64Functions, <<f>>) /\ x64Pc' = "info" /\ x64Rva' = x64Rva
        /\ X64Entry \in DOMAIN x64Dir.infos /\ x64Pc' \in InInfo
    BY <1>1, <1>4 DEF X64EntryRead, InInfo
  <2>2. f \in X64Function(x64Dir) /\ X64Turn("info", x64Dir, f, x64Slot)
    <3>1. /\ f \in X64Function(x64Dir) /\ f.codes = <<>> /\ f.extra = "none" /\ f.behindAt = -1
          /\ f.errors \subseteq {"unaligned_runtime_function_entry"} /\ f.info = X64Entry
      BY <2>1, FunctionBegins
    <3> HIDE DEF f
    <3> QED
      BY <2>1, <3>1 DEF X64Turn, SlotsInOrder
  <2> HIDE DEF f
  <2>3. X64Settled(x64Dir, f)
    BY <2>2, TurnIsSettled
  <2>4. /\ x64Functions' \in Seq(X64Chains(x64Dir)) /\ x64Functions' # <<>> /\ Innermost' = f
        /\ OthersEnded'
    BY <1>1, <2>1, <2>2, <2>3, ChainAdded DEF InInfo
  <2>5. X64Place'
    BY <1>1, <2>1, <2>4 DEF X64Inv, X64Place, InInfo
  <2>6. X64Turn(x64Pc', x64Dir', Innermost', x64Slot')
    BY <1>1, <2>1, <2>2, <2>4
  <2> QED
    BY <2>1, <2>4, <2>5, <2>6 DEF X64Inv
<1> QED
  BY <1>2, <1>3, <1>4

LEMMA X64WalkInv == ASSUME X64Inv, X64SizeChecked \/ X64EndOfEntries PROVE X64Inv'
<1>1. /\ x64Pc \in {"directory", "entry", "end"} /\ x64Pc' \in {"entry", "done"}
      /\ UNCHANGED <<x64Dir, x64Rva, x64Functions, x64Slot>>
  BY DEF X64SizeChecked, X64EndOfEntries
<1>2. X64Place'
  BY <1>1 DEF X64Inv, X64Place, InInfo
<1> QED
  BY <1>1, <1>2, SameInnermost DEF X64Inv, InInfo

LEMMA X64Step == X64Inv /\ X64Load => X64Inv'
BY X64WalkInv, X64EntryInv, InfoReadInv, CodesUnreadInv, UnknownCodeInv, UnwindCodeInv,
   EndOfCodesInv, BehindInv, ChainedInv, HandlerReadInv DEF X64Load

LEMMA X64Properties == X64Inv => X64CodesTile /\ X64BehindFound
<1> SUFFICES ASSUME X64Inv PROVE X64CodesTile /\ X64BehindFound
  OBVIOUS
<1>1. X64BehindFound
  BY DEF X64Inv, OthersEnded, X64Settled, X64BehindFound, AllFunctions
<1>2. ASSUME NEW i \in DOMAIN x64Functions, NEW j \in DOMAIN x64Functions[i]
      PROVE  /\ SlotsInOrder(x64Dir.infos[x64Functions[i][j].info], x64Functions[i][j].codes)
             /\ X64InTurn(i, j) \/ X64Ended(x64Dir, x64Functions[i][j])
  <2>1. /\ X64Settled(x64Dir, x64Functions[i][j])
        /\ IsInnermost(i, j) \/ X64Ended(x64Dir, x64Functions[i][j])
    BY <1>2 DEF X64Inv, OthersEnded
  <2>2. CASE IsInnermost(i, j)
    <3>1. x64Functions[i][j] = Innermost
      BY <2>2 DEF IsInnermost, Innermost, Chain
    <3>2. x64Functions # <<>>
      BY <1>2
    <3>3. CASE x64Pc \in {"info", "codes"}
      BY <2>1, <2>2, <3>3 DEF X64Settled, IsInnermost, X64InTurn
    <3>4. CASE x64Pc \notin {"info", "codes"}
      BY <2>1, <3>1, <3>2, <3>4 DEF X64Inv, X64Settled, X64Turn, InInfo
    <3> QED
      BY <3>3, <3>4
  <2> QED
    BY <2>1, <2>2 DEF X64Settled
<1>3. X64CodesTile
  BY <1>2 DEF X64CodesTile, X64Ended
<1> QED
  BY <1>1, <1>3

-----------------------------------------------------------------------------
(***************************************************************************)
(* The loaders one after the other.                                          *)
(***************************************************************************)

UnwindInv ==
    /\ stage \in {"x64", "arm64", "arm", "loaded", "words", "counts"}
    /\ stage \in {"x64", "arm64", "arm"} => image \in Images
    /\ X64Inv /\ ArmInv

LEMMA DirectoriesAreTyped ==
    ASSUME NEW i \in Images
    PROVE  /\ X64Directory(i) = Absent \/ IsX64Directory(X64Directory(i))
           /\ Arm64Directory(i) = Absent \/ Arm64Directory(i) \in ArmDirectoryType
           /\ ArmDirectory(i) = Absent \/ ArmDirectory(i) \in ArmDirectoryType
BY ImagesAssumption, X64DirectoriesAssumption, ArmDirectoriesAssumption

\* A loader that has not begun, and one that begins.
LEMMA IdleLoaders ==
    /\ x64Dir = Absent \/ IsX64Directory(x64Dir)
    /\ x64Pc = IF x64Dir = Absent THEN "done" ELSE "directory"
    /\ x64Rva = x64Dir.rva /\ x64Functions = <<>> /\ x64Slot = 0
    => X64Inv
<1> SUFFICES ASSUME x64Dir = Absent \/ IsX64Directory(x64Dir),
                    x64Pc = (IF x64Dir = Absent THEN "done" ELSE "directory"),
                    x64Rva = x64Dir.rva, x64Functions = <<>>, x64Slot = 0
             PROVE  X64Inv
  OBVIOUS
<1>1. x64Dir.rva \in Nat
  BY X64DirectoriesAssumption DEF Absent, IsX64Directory
<1>2. x64Rva = x64Dir.rva + X64EntrySize * 0
  BY <1>1 DEF X64EntrySize
<1>3. X64Place
  BY <1>2 DEF X64Place, InInfo
<1> QED
  BY <1>3 DEF X64Inv, OthersEnded, InInfo

LEMMA IdleArm ==
    ASSUME NEW d, armDir = d, d = Absent \/ d \in ArmDirectoryType,
           armPc = (IF d.rva = 0 THEN "done" ELSE "directory"),
           armRva = d.rva, armFunctions = <<>>, armPos = 0
    PROVE  ArmInv
<1>1. d.rva \in Nat /\ (armPc # "done" => d \in ArmDirectoryType)
  BY ArmDirectoriesAssumption DEF Absent, ArmDirectoryType
<1>2. ArmPlace
  BY <1>1 DEF ArmPlace, InRecord, EntrySize
<1> QED
  BY <1>2 DEF ArmInv, InRecord

LEMMA UnwindInit == Init => UnwindInv
<1> SUFFICES ASSUME Init PROVE UnwindInv
  OBVIOUS
<1>1. armDir = Absent /\ armPc = "done" /\ armRva = 0 /\ armFunctions = <<>> /\ armPos = 0
  BY DEF Init, IdleLoad
<1>2. ArmInv
  BY <1>1, IdleArm DEF Absent
<1>3. CASE stage = "x64"
  <2>1. /\ image \in Images /\ x64Dir = X64Directory(image) /\ x64Rva = x64Dir.rva
        /\ x64Pc = IF x64Dir = Absent THEN "done" ELSE "directory"
        /\ x64Functions = <<>> /\ x64Slot = 0
    BY <1>3 DEF Init
  <2> QED
    BY <1>2, <1>3, <2>1, DirectoriesAreTyped, IdleLoaders DEF UnwindInv
<1>4. CASE stage # "x64"
  <2>1. /\ x64Dir = Absent /\ x64Pc = "done" /\ x64Rva = 0 /\ x64Functions = <<>> /\ x64Slot = 0
        /\ stage \in {"words", "counts"}
    BY <1>4 DEF Init, IdleLoad
  <2>2. X64Inv
    BY <2>1, IdleLoaders DEF Absent
  <2> QED
    BY <1>2, <2>1, <2>2 DEF UnwindInv
<1> QED
  BY <1>3, <1>4

\* Each of the invariants is about the variables of its loader.
LEMMA SameX64 == X64Inv /\ UNCHANGED x64Vars => X64Inv'
BY SameInnermost DEF X64Inv, X64Place, x64Vars

LEMMA SameArm == ArmInv /\ UNCHANGED armVars => ArmInv'
BY DEF ArmInv, ArmPlace, armVars, Current, RecordOf

LEMMA Begins ==
    ASSUME NEW d, d = Absent \/ d \in ArmDirectoryType, ArmBegins(d)
    PROVE  ArmInv'
<1>1. d.rva \in Nat /\ (armPc' # "done" => d \in ArmDirectoryType)
  BY ArmDirectoriesAssumption DEF Absent, ArmDirectoryType, ArmBegins
<1>2. ArmPlace'
  BY <1>1 DEF ArmPlace, ArmBegins, InRecord, EntrySize
<1> QED
  BY <1>2 DEF ArmInv, ArmBegins, InRecord

LEMMA UnwindStep == UnwindInv /\ [Next]_vars => UnwindInv'
<1> SUFFICES ASSUME UnwindInv, [Next]_vars PROVE UnwindInv'
  OBVIOUS
<1>1. CASE LoadX64
  BY <1>1, X64Step, SameArm DEF UnwindInv, LoadX64
<1>2. CASE LoadArm
  BY <1>2, ArmStep, SameX64 DEF UnwindInv, LoadArm
<1>3. CASE ThenArm64
  BY <1>3, DirectoriesAreTyped, Begins, SameX64 DEF UnwindInv, ThenArm64
<1>4. CASE ThenArm
  BY <1>4, DirectoriesAreTyped, Begins, SameArm, SameX64 DEF UnwindInv, ThenArm
<1>5. CASE Loaded
  BY <1>5, SameArm, SameX64 DEF UnwindInv, Loaded
<1>6. CASE UNCHANGED <<stage, image, x64Vars, armVars>>
  BY <1>6, SameArm, SameX64 DEF UnwindInv
<1> QED
  BY <1>1, <1>2, <1>3, <1>4, <1>5, <1>6 DEF Next, vars

THEOREM UnwindInvariance == Spec => []UnwindInv
BY UnwindInit, UnwindStep, PTL DEF Spec

\* For every image and whatever errors its unwind information has, the codes that
\* were read are those the bytes hold, one behind the other, up to the end of
\* their area or to where an error says that they end.
THEOREM CodesTileTheirArea == Spec => []CodesTile
<1>1. UnwindInv => CodesTile
  BY X64Properties, ArmProperties DEF UnwindInv, CodesTile
<1> QED
  BY <1>1, UnwindInvariance, PTL

\* For every image, what is read behind the codes is what stands behind them.
THEOREM BehindIsFound == Spec => []BehindCodesFound
<1>1. UnwindInv => BehindCodesFound
  BY X64Properties, ArmProperties DEF UnwindInv, BehindCodesFound
<1> QED
  BY <1>1, UnwindInvariance, PTL

=============================================================================
