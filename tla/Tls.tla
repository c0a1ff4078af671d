--------------------------------- MODULE Tls ---------------------------------
(***************************************************************************)
(* The TLS directory: build_new and get_built_size                           *)
(* (tls_directory_builder.cpp), and load (tls_directory_loader.cpp).         *)
(* Addresses count from the start of the directory, which is at DirectoryRva *)
(* of the image.                                                             *)
(***************************************************************************)
EXTENDS Cursor, SequencesExt

CONSTANTS
    DirectoryRva,   \* any number: the callbacks may be aligned
    Callbacks,      \* addresses of callbacks, not zero
    MaxCallbacks,
    RawSizes,       \* sizes of raw data
    VirtualSizes    \* sizes of the part of them that is not in the file

VARIABLES
    given,   \* [is64, callbacks, start, end, raw, virtual, align, write_virtual]
    pc,      \* "build", "callbacks", "raw", "loaded", "done" or "throws"
    walk,    \* [built, callbacks_at, start, end, predicted, at, written]
    result,  \* [callbacks, raw]
    errors

vars == <<given, pc, walk, result, errors>>

VaSize == IF given.is64 THEN 8 ELSE 4
DescriptorSize == IF given.is64 THEN 40 ELSE 24

\* A caller says where its raw data begin and end, which need not be what they are.
Init ==
    /\ given \in [is64 : BOOLEAN, callbacks : SeqOf(Callbacks, MaxCallbacks),
                  start : {0, 1}, end : RawSizes, raw : RawSizes, virtual : VirtualSizes,
                  align : BOOLEAN, write_virtual : BOOLEAN]
    /\ given.virtual <= given.raw
    /\ pc = "build"
    /\ walk = [built |-> EmptyBuffer, callbacks_at |-> 0, start |-> 0, end |-> 0, predicted |-> 0, at |-> 0,
               written |-> {}]
    /\ result = [callbacks |-> <<>>, raw |-> <<>>] /\ errors = {}

-----------------------------------------------------------------------------
(* build_new. *)

WantedRaw == IF given.write_virtual THEN given.raw ELSE given.raw - given.virtual
GapAt(place) ==
    IF given.align THEN RoundUp(DirectoryRva + place, VaSize) - (DirectoryRva + place) ELSE 0

\* get_built_size looks for the alignment behind the callbacks, build_new before
\* them: both are whole addresses apart.
PredictedSize ==
    LET callbacks == DescriptorSize + Len(given.callbacks) * VaSize
    IN callbacks + GapAt(callbacks) + VaSize + WantedRaw

BuildRefused ==
    /\ pc = "build" /\ given.start > given.end
    /\ pc' = "throws" /\ errors' = {"invalid_raw_data_size"}
    /\ UNCHANGED <<given, walk, result>>

RawBytes(n) == [i \in 1 .. n |-> Item("byte", 1, i)]

\* Faulty: no zero behind the callbacks.
Terminator0 == <<>>

Terminator == <<Item("va", VaSize, 0)>>

Build ==
    /\ pc = "build" /\ given.start <= given.end
    /\ LET gap == GapAt(DescriptorSize)
           callbacks == DescriptorSize + gap
           length == given.end - given.start
           raw == callbacks + (Len(given.callbacks) + 1) * VaSize
       IN \E items \in {<<Item("descriptor", DescriptorSize, 0), Item("gap", gap, 0)>>
               \o [i \in DOMAIN given.callbacks |-> Item("va", VaSize, given.callbacks[i])]
               \o Terminator \o RawBytes(Min({length, WantedRaw}))} :
          walk' = [built |-> Placed(items), callbacks_at |-> callbacks, start |-> raw, end |-> raw + length,
                   predicted |-> PredictedSize, at |-> callbacks, written |-> {}]
    /\ pc' = "callbacks" /\ UNCHANGED <<given, result, errors>>

-----------------------------------------------------------------------------
(* load. *)

LoadCallback ==
    /\ pc = "callbacks" /\ Readable(walk.built, "va", walk.at)
    /\ LET va == Read(walk.built, "va", walk.at) IN
       IF va = 0 THEN pc' = "raw" /\ UNCHANGED <<walk, result>>
       ELSE /\ result' = [result EXCEPT !.callbacks = Append(@, va)]
            /\ walk' = [walk EXCEPT !.at = @ + VaSize]
            /\ UNCHANGED pc
    /\ UNCHANGED <<given, errors>>

\* No end: the callbacks go on into what is behind them.
CallbacksUnread ==
    /\ pc = "callbacks" /\ ~Readable(walk.built, "va", walk.at)
    /\ errors' = errors \cup {"invalid_callbacks"}
    /\ pc' = "raw" /\ UNCHANGED <<given, walk, result>>

\* As many bytes as the section has: those of the directory end with its items.
LoadRawData ==
    /\ pc = "raw"
    /\ LET section == walk.built.size - walk.start
           length == Min({section, walk.end - walk.start})
       IN result' = [result EXCEPT !.raw =
            [i \in 1 .. length |-> Read(walk.built, "byte", walk.start + i - 1)]]
    /\ pc' = "loaded" /\ UNCHANGED <<given, walk, errors>>

-----------------------------------------------------------------------------
(* build_in_place, of what was loaded: every structure at the address it came from. *)

Write(place, kind, value) == [at |-> place, kind |-> kind, value |-> value]

\* The address behind the last callback; there being none, address zero of the image.
TerminatorPlace ==
    IF result.callbacks = <<>> THEN -DirectoryRva
    ELSE walk.callbacks_at + Len(result.callbacks) * VaSize

BuildInPlace ==
    /\ pc = "loaded"
    /\ walk' = [walk EXCEPT !.written =
            {Write(0, "descriptor", 0), Write(TerminatorPlace, "va", 0)}
            \cup {Write(walk.callbacks_at + (i - 1) * VaSize, "va", result.callbacks[i]) :
                    i \in DOMAIN result.callbacks}
            \cup {Write(walk.start + i - 1, "byte", result.raw[i]) : i \in DOMAIN result.raw}]
    /\ pc' = "done" /\ UNCHANGED <<given, result, errors>>

Next == BuildRefused \/ Build \/ LoadCallback \/ CallbacksUnread \/ LoadRawData \/ BuildInPlace

-----------------------------------------------------------------------------
(* What is checked. *)

LoadedBack ==
    /\ result.callbacks = given.callbacks /\ errors = {}
    /\ Len(result.raw) = Min({given.end - given.start, WantedRaw})
    /\ \A i \in DOMAIN result.raw : result.raw[i] = i

\* Nothing that was not changed is changed.
KeptInPlace == walk.written \subseteq walk.built.cells

\* What is built is as long as get_built_size says, if the descriptor says how
\* long the raw data are.
IsDescribed == given.end - given.start = WantedRaw
SizeIsPredicted == IsDescribed => walk.predicted = walk.built.size

=============================================================================
