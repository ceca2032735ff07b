---------------------------- MODULE MCNonStandard ----------------------------
EXTENDS NonStandard

\* Vera sections: each check of the parser just met and just missed, and one
\* or two contexts of each format whose sizes agree or not.
Context(context_size, format, data_size) ==
    [context_size |-> context_size, format |-> format, data_size |-> data_size]
Section(len, contexts) ==
    [len |-> len, version |-> 1, source_device_type |-> 0, info_size |-> 32,
     contexts |-> contexts]
MCContexts == {Context(c, f, d) : c \in {16, 40, 48}, f \in {0, 1, 4}, d \in {0, 20, 32}}
MCVeraSections ==
    {Section(len, << >>) : len \in {63, 64}} \cup
    {[Section(80, << >>) EXCEPT !.version = 2], [Section(80, << >>) EXCEPT !.source_device_type = 1],
     [Section(80, << >>) EXCEPT !.info_size = 31], [Section(80, << >>) EXCEPT !.info_size = 49]} \cup
    {Section(400, [i \in 1..n |-> Context(16, 0, 0)]) : n \in {16, 17}} \cup
    {Section(len, <<c>>) : len \in {79, 96, 112}, c \in MCContexts \cup
        {Context(15, 0, 0), Context(16, 5, 0), Context(48, 2, 32), Context(48, 3, 24)}} \cup
    {Section(len, <<Context(48, 1, 16), Context(16, 4, d)>>) : len \in {96, 112, 127, 128, 132}, d \in {0, 4, 6}}
=============================================================================
