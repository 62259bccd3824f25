------------------------------ MODULE MCAgents ------------------------------
\* Two layers, base (1) below lobby (2), the variant of one group.  Path 1 is
\* variant.yml, path 2 is in both layers, path 3 only in base.  The descriptor
\* of base is never edited and left out.
EXTENDS Agents

Files == << <<3, 2>>, <<2, 1>> >>

Inherits == [listed |-> TRUE, enabled |-> TRUE, selectable |-> TRUE,
             minimum |-> 1, maximum |-> 2, minimumWarm |-> 1,
             maximumWarm |-> 1, target |-> 1, players |-> 2,
             parents |-> <<1>>,
             runtime |-> <<"small", Nothing>>]

Written ==
    {Inherits,
     [Inherits EXCEPT !.listed = FALSE],
     [Inherits EXCEPT !.target = 3],
     [Inherits EXCEPT !.parents = <<>>]}

Symmetry == Permutations(Instances)
=============================================================================
