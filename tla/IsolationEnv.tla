---------------------------- MODULE IsolationEnv ----------------------------
(***************************************************************************)
(* The thresholds and cycles of the page and row policies                  *)
(* (parse_isolation_env of ras-page-isolation.c): a number and a unit from *)
(* the environment, turned into errors or seconds.  The environment value  *)
(* is kept as its number and its last character; the arithmetic is that of *)
(* unsigned long.                                                          *)
(***************************************************************************)
EXTENDS Integers

CONSTANTS
    ULONG,      \* 2^64
    MaxValue    \* bound on the numbers in the environment

ASSUME EnvAssumption == ULONG \in Nat \ {0, 1} /\ MaxValue \in Nat

VARIABLES
    kind,       \* which struct isolation: "cycle" or "threshold"
    env,        \* the variable: [set, value, unit]; unit "none" for a digit
    val,        \* config->val
    overflow,   \* config->overflow
    parsed      \* parse_isolation_env has returned

vars == <<kind, env, val, overflow, parsed>>

\* Units are written in lower case: strcasecmp ignores the case.
Letters == {"none", "d", "h", "m", "k", "s", "other"}

(* cycle_units and threshold_units.                                        *)
Units(k) == IF k = "cycle"
            THEN [d |-> 24, h |-> 60, m |-> 60, s |-> 1]
            ELSE [m |-> 1000, k |-> 1000, none |-> 1]

(* .env and .unit of the struct before parsing: "24h" and "50".            *)
Default(k) == IF k = "cycle" THEN [value |-> 24, unit |-> "h"]
              ELSE [value |-> 50, unit |-> "none"]

Init ==
    /\ kind \in {"cycle", "threshold"}
    /\ env \in [set : BOOLEAN, value : 0..MaxValue, unit : Letters]
    /\ val = 0 /\ overflow = FALSE /\ parsed = FALSE

(* sscanf("%lu") saturates.                                                *)
Saturate(n) == IF n >= ULONG THEN ULONG - 1 ELSE n

(* The checks before the label `parse'.                                    *)
Valid == env.set /\ env.value # 0 /\ (env.unit = "none" \/ env.unit \in DOMAIN Units(kind))

(* The value and unit that are used; a value without unit keeps the unit   *)
(* of the default.                                                         *)
Chosen ==
    IF ~Valid THEN Default(kind)
    ELSE [value |-> env.value,
          unit |-> IF env.unit = "none" THEN Default(kind).unit ELSE env.unit]

\* Mutant: the product is not checked.
Overflow_NoCheck(text, factor, lastIsDigit, errno) == FALSE

ERANGE == 34

(* The product wraps, or strtoul, used for the units of factor 1, finds    *)
(* the number out of range or does not end at the end of the string.       *)
(* errno is not cleared first: it may be left from an earlier call.        *)
Overflow(text, factor, lastIsDigit, errno) ==
    LET tmp == Saturate(text)
        value == (tmp * factor) % ULONG
    IN  \/ tmp # 0 /\ value \div tmp # factor
        \/ factor = 1 /\ (text >= ULONG \/ ~lastIsDigit \/ errno = ERANGE)

(* The loop over the units: unit_matched is cleared again by the unit that *)
(* matched, so only the factor of that unit is applied.                    *)
parse_isolation_env ==
    /\ ~parsed
    /\ LET factor == Units(kind)[Chosen.unit]
           lastIsDigit == IF Valid THEN env.unit = "none" ELSE kind = "threshold"
       IN  /\ val' = (Saturate(Chosen.value) * factor) % ULONG
           /\ \E errno \in {0, ERANGE} :
                 overflow' = Overflow(Chosen.value, factor, lastIsDigit, errno)
    /\ parsed' = TRUE
    /\ UNCHANGED <<kind, env>>

Done == parsed /\ UNCHANGED vars

Spec == Init /\ [][parse_isolation_env \/ Done]_vars

-----------------------------------------------------------------------------
(* A configuration that is used without the warning that it was truncated  *)
(* is the exact, non-zero product of its number and a factor: no page      *)
(* policy runs with a threshold or a cycle of zero that nobody was told.   *)
FlaggedOrExact ==
    parsed /\ ~overflow =>
        /\ val # 0
        /\ \E u \in DOMAIN Units(kind) : val = Chosen.value * Units(kind)[u]

(* misc/rasdaemon.env:14: `D|d (day), H|h (hour), M|m (min), default is in *)
(* hour', and ras-page-isolation.h counts seconds: a cycle given with a    *)
(* documented unit lasts that long.                                        *)
Seconds == [d |-> 86400, h |-> 3600, m |-> 60, s |-> 1]
CycleAsDocumented ==
    parsed /\ ~overflow /\ kind = "cycle" => val = Chosen.value * Seconds[Chosen.unit]
=============================================================================
