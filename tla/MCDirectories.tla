---------------------------- MODULE MCDirectories ----------------------------
(***************************************************************************)
(* The loaders of the data directories that stand alone, with their instances. *)
(* Each is a specification of its own over the same five variables; a state of *)
(* this one is a state of the one of them that part names.                     *)
(***************************************************************************)
EXTENDS Integers, Sequences, FiniteSets

CONSTANTS
    VaMax, MaxEntries, Rvas, Headers,
    TableSizes, ReachSizes, BlockSizes, SmallSizes, RvaMax,
    Sizes, ReadableSizes, MaxListed, DataSizes, MaxCount,
    Checksums, Offsets, MaxItems,
    MetadataSizes, MaxStreams, PolicySizes,
    OverlayStarts, OverlaySizes, DirectorySizes, CertificateSizes, MaxCertificates, MaxNested

VARIABLES part, given, pc, walk, result, errors

vars == <<part, given, pc, walk, result, errors>>

LC == INSTANCE LoadConfig
DR == INSTANCE DynamicRelocations
DE == INSTANCE Debug
RI == INSTANCE Rich
DN == INSTANCE DotNet
TR == INSTANCE Trustlet
SE == INSTANCE Security

\* Addresses, sizes and limits are unsigned.
ASSUME DirectoriesAssumption ==
    /\ \A h \in Headers : LC!IsHeader(h)
    /\ VaMax \in Nat /\ MaxEntries \in Nat /\ Rvas \subseteq Nat
    /\ TableSizes \cup ReachSizes \cup BlockSizes \cup SmallSizes \subseteq Nat
    /\ Sizes \cup DataSizes \subseteq Nat /\ MaxListed \in Nat /\ MaxCount \in Nat
    /\ MetadataSizes \subseteq Nat /\ MaxStreams \in Nat
    /\ OverlayStarts \cup OverlaySizes \cup DirectorySizes \cup CertificateSizes \subseteq Nat

Init ==
    \/ part = "load_config" /\ LC!Init
    \/ part = "dynamic_relocations" /\ DR!Init
    \/ part = "debug" /\ DE!ListInit
    \/ part = "debug_data" /\ DE!DataInit
    \/ part = "rich" /\ RI!Init
    \/ part = "dotnet" /\ DN!Init
    \/ part = "trustlet" /\ TR!Init
    \/ part = "certificates" /\ SE!CertificatesInit
    \/ part = "authenticode" /\ SE!SignaturesInit

Next ==
    /\ \/ part = "load_config" /\ LC!Next
       \/ part = "dynamic_relocations" /\ DR!Next
       \/ part = "debug" /\ DE!ListNext
       \/ part = "debug_data" /\ DE!DataNext
       \/ part = "rich" /\ RI!Next
       \/ part = "dotnet" /\ DN!Next
       \/ part = "trustlet" /\ TR!Next
       \/ part = "certificates" /\ SE!CertificatesNext
       \/ part = "authenticode" /\ SE!SignaturesNext
    /\ UNCHANGED part

\* Loaders are sequential functions that wait for nothing.
Spec == Init /\ [][Next]_vars /\ WF_vars(Next)

-----------------------------------------------------------------------------
(* What is checked. *)

\* A table about which nothing is reported is whole, and a cursor stays inside of what it
\* walks.  Of dynamic relocations nothing is passed over in silence but what the loader
\* does not look at: what is left of a header of the second version behind the fields of
\* its symbol, and what lies around the BDD in the region behind the function overrides.
WholeTables ==
    /\ part = "load_config" => LC!TableWhole /\ LC!TableBounded /\ LC!VersionKept
    /\ part = "debug" => DE!ListWhole
    /\ part = "debug_data" => DE!DataWhole
    /\ part = "rich" => RI!HeaderWhole /\ RI!ProductsNearest
    /\ part = "dotnet" => DN!MetadataWhole
    /\ part = "trustlet" => TR!PolicyWhole
    /\ part = "certificates" => SE!CertificatesWhole
    /\ part = "dynamic_relocations" => DR!FramesNested /\ DR!NothingPassedOver

\* A signature is called valid exactly if everything about it is.
VerdictsJust == part = "authenticode" => SE!VerdictJust

\* Every load and every check of a signature ends.
LoadsEnd == <>(pc \in {"done", "undefined", "throws", "overflow"})

-----------------------------------------------------------------------------
(* The instance. *)

\* Load configuration: one part, in a descriptor that is whole, that ends in
\* the middle of its group, or before it.
Group == [memcpy_pointer |-> 14, cast_guard |-> 13, xf_guard |-> 12, ehcont |-> 11,
          volatile_access |-> 10, volatile_range |-> 10, enclave |-> 9, chpe |-> 6,
          export_suppression |-> 5, longjump |-> 5, cf_functions |-> 3, safeseh |-> 2,
          lock_prefix |-> 1, security_cookie |-> 1]
CfFlags == {"guard_cf", "cf_instrumented", "cf_function_table_present", "load_hashes",
            "xfg_enabled", "cf_export_suppression_info_present", "cf_longjump_table_present"}
FlagSets == {{}, {"no_seh"}, CfFlags} \cup {CfFlags \ {f} : f \in CfFlags}
Header(p, size, va, number, extra, is64, flags, machine, wanted) ==
    [part |-> p, size |-> size, va |-> va, number |-> number, extra |-> extra, is64 |-> is64,
     flags |-> flags, machine |-> machine, wanted |-> wanted]
SizesFor(p) == {2 * Group[p] - 2, 2 * Group[p] - 1, 2 * Group[p], 28}
MCHeaders ==
    UNION {{Header(p, size, va, number, extra, FALSE, CfFlags, "arm64", TRUE) :
                size \in SizesFor(p), va \in {0, 1, 13}, number \in {0, 2, 3, 4, 9, 16},
                extra \in {0, 1}} : p \in DOMAIN Group}
    \cup {Header(p, 28, 1, 2, extra, is64, flags, machine, wanted) :
            p \in DOMAIN Group, extra \in {0, 1}, is64 \in BOOLEAN, flags \in FlagSets,
            machine \in {"amd64", "chpe_x86", "i386"}, wanted \in BOOLEAN}

MCChecksums == {<<"k", "y">>, <<"h", "y">>, <<"c", "h">>, <<"c", "c">>, <<"c", "y">>, <<"i", "c">>}

=============================================================================
