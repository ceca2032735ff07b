------------------------------ MODULE VeraCper ------------------------------
(***************************************************************************)
(* The parser of NVIDIA Vera sections (non-standard-nvidia.c): a header,   *)
(* the CPU information and up to 16 contexts, each with a header and data  *)
(* in one of five formats.  Every length comes from the section, and the   *)
(* contexts are printed from pointers into it, so what matters is which    *)
(* bytes are read.  A section is its length, the fields the parser decides *)
(* on, and the headers it finds one after the other.                       *)
(***************************************************************************)
EXTENDS Integers, Sequences, FiniteSets

SizeofEvent == 32       \* sizeof(struct nvidia_vera_event_sec)
SizeofCpuInfo == 32     \* sizeof(struct nvidia_vera_cpu_info)
SizeofContext == 16     \* sizeof(struct nvidia_vera_context_sec)
NVIDIA_VERA_VERSION == 1
NVIDIA_VERA_MAX_CONTEXTS == 16

CONSTANT SIZE_MAX       \* 2^64 - 1

ASSUME VeraAssumption == SIZE_MAX \in Nat

\* A difference of two size_t wraps.
Minus(a, b) == (a - b) % (SIZE_MAX + 1)

(* What the parser decides on: the length, and the fields it finds in it.  *)
VeraContext == [context_size : Nat, format : Nat, data_size : Nat]
VeraSection == [len : 0..SIZE_MAX, version : Nat, source_device_type : Nat, info_size : Nat,
                contexts : Seq(VeraContext)]

\* The bytes [from, to) of the section.
Bytes(from, length) == [from |-> from, to |-> from + length]

\* The size of one entry of a context's data; format 0 is opaque.
EntrySize == <<16, 8, 8, 4>>

nvidia_vera_validate_context_data(format, data_size) ==
    format = 0 \/ (format \in 1..4 /\ data_size % EntrySize[format] = 0)

nvidia_vera_context_entry_count(ctx) ==
    IF ctx.format = 0 THEN 0 ELSE ctx.data_size \div EntrySize[ctx.format]

(* What printing a context reads: the first 16 bytes of opaque data, else  *)
(* each entry, through the accessor for its format.                        *)
nvidia_vera_print_context(ctx) ==
    IF ctx.format = 0 /\ ctx.data_size > 0
    THEN {Bytes(ctx.data, IF ctx.data_size > 16 THEN 16 ELSE ctx.data_size)}
    ELSE {Bytes(ctx.data + k * EntrySize[ctx.format], EntrySize[ctx.format]) :
              k \in 0..nvidia_vera_context_entry_count(ctx) - 1}

-----------------------------------------------------------------------------
(* How far one context takes the parser, 0 when it refuses it.             *)
ContextAdvance(ctx, rest) ==
    LET data_end == SizeofContext + ctx.data_size
    IN  IF ctx.context_size < SizeofContext \/ ctx.format > 4 \/ data_end > rest THEN 0
        ELSE IF ctx.context_size = SizeofContext THEN data_end
        ELSE IF ctx.data_size <= ctx.context_size - SizeofContext THEN ctx.context_size
        ELSE 0

\* Mutant: the advance by the context's own size is not bounded.
ContextStep_Unbounded(ctx, rest) ==
    LET advance == ContextAdvance(ctx, rest)
    IN  IF nvidia_vera_validate_context_data(ctx.format, ctx.data_size) THEN advance ELSE 0

ContextStep(ctx, rest) ==
    LET advance == ContextAdvance(ctx, rest)
    IN  IF advance <= rest /\ nvidia_vera_validate_context_data(ctx.format, ctx.data_size)
        THEN advance ELSE 0

(* One context of a section of len bytes: p is the offset, the contexts    *)
(* with their data, the bytes read, and whether all was well so far.       *)
NextContext(p, len, ctx) ==
    LET rest == Minus(len, p.offset)
        step == ContextStep(ctx, rest)
    IN  IF ~p.ok THEN p
        ELSE IF rest < SizeofContext THEN [p EXCEPT !.ok = FALSE]
        ELSE [ok |-> step # 0, offset |-> p.offset + step,
              contexts |-> Append(p.contexts, [format |-> ctx.format, data_size |-> ctx.data_size,
                                               data |-> p.offset + SizeofContext]),
              reads |-> p.reads \cup {Bytes(p.offset, SizeofContext)}]

(* The loop over the contexts.                                             *)
FirstContext(sec) == [ok |-> TRUE, offset |-> SizeofEvent + sec.info_size,
                      contexts |-> << >>, reads |-> {}]
ParseContexts(sec) ==
    LET after[i \in 0..Len(sec.contexts)] ==
            IF i = 0 THEN FirstContext(sec)
            ELSE NextContext(after[i - 1], sec.len, sec.contexts[i])
    IN  after[Len(sec.contexts)]

nvidia_decode_vera_cper_sec(sec) ==
    LET refused(reads) == [ok |-> FALSE, contexts |-> << >>, reads |-> reads]
        event == Bytes(0, SizeofEvent)
        cpu_info == Bytes(SizeofEvent, SizeofCpuInfo)
    IN  IF sec.len < SizeofEvent THEN refused({})
        ELSE IF \/ sec.version # NVIDIA_VERA_VERSION \/ sec.source_device_type # 0
                \/ Minus(sec.len, SizeofEvent) < SizeofCpuInfo THEN refused({event})
        ELSE IF \/ sec.info_size < SizeofCpuInfo
                \/ Minus(sec.len, SizeofEvent) < sec.info_size
                \/ Len(sec.contexts) > NVIDIA_VERA_MAX_CONTEXTS
             THEN refused({event, cpu_info})
        ELSE LET p == ParseContexts(sec)
             IN  [ok |-> p.ok, contexts |-> p.contexts,
                  reads |-> p.reads \cup {event, cpu_info}]

(* What nvidia_vera_ns_decode does with a section before it stores it:     *)
(* too short a section is refused, one that parses is printed.             *)
VeraDecode(sec) ==
    LET d == nvidia_decode_vera_cper_sec(sec)
    IN  IF sec.len < SizeofEvent + SizeofCpuInfo THEN [ok |-> FALSE, reads |-> {}]
        ELSE [ok |-> d.ok,
              reads |-> d.reads \cup
                  IF d.ok THEN UNION {nvidia_vera_print_context(d.contexts[i]) :
                                          i \in 1..Len(d.contexts)}
                  ELSE {}]
=============================================================================
