----------------------------- MODULE MCStartup -----------------------------
EXTENDS Startup

Info(vendor, family, model, smca) ==
    [vendor |-> vendor, family |-> family, model |-> model, smca |-> smca, seen |-> "all"]
MCCpus == {Info("AuthenticAMD", 15, 1, FALSE), [Info("", 0, 0, FALSE) EXCEPT !.seen = "none"]}
MCCpuInfos ==
    {Info("GenuineIntel", f, m, FALSE) : f \in {5, 6, 15, 18, 19}, m \in 0..255} \cup
    {Info("AuthenticAMD", f, 1, s) : f \in {6, 15, 23, 25, 26}, s \in BOOLEAN} \cup
    {Info("HygonGenuine", f, 1, TRUE) : f \in {24, 25}} \cup
    {Info(v, f, m, FALSE) : v \in {"CentaurHauls", "  Shanghai  "}, f \in {6, 7}, m \in {59, 123}} \cup
    {Info("Other", 6, 1, FALSE)} \cup
    {[Info("GenuineIntel", 6, 85, FALSE) EXCEPT !.seen = s] : s \in {"some", "none"}}

MCDisables == {{}, {"erst", "mc_event"}}
MCAbsent == {{}, {"mc_event", "mce_record", "signal_generate"}}
=============================================================================
