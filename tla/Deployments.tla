---------------------------- MODULE Deployments ----------------------------
(***************************************************************************)
(* What the execution side promises the orchestrator about the files of an *)
(* instance, without archives, caches, staging directories or retries: the *)
(* template layers of an instance are chosen once, when it is planned; its *)
(* runtime directory, whenever it exists, holds exactly those layers, each *)
(* path taken from the last layer of the stack that has it, and never the  *)
(* descriptor.  Module Agents implements this.                             *)
(***************************************************************************)
EXTENDS Integers, Sequences

CONSTANTS
    Instances,      \* server_instances rows
    Stacks,         \* non-empty sequences of layer contents, [Path -> version]
    Descriptor,     \* the path of variant.yml
    Nothing         \* no directory

VARIABLES
    plan,           \* the layers frozen for each instance, <<>> before
    data            \* the runtime directory of each instance

TopLayer(stack, path) ==
    CHOOSE n \in DOMAIN stack :
        /\ path \in DOMAIN stack[n]
        /\ \A m \in DOMAIN stack : path \in DOMAIN stack[m] => m <= n

Paths(stack) ==
    (UNION {DOMAIN stack[n] : n \in DOMAIN stack}) \ {Descriptor}

Overlay(stack) ==
    [path \in Paths(stack) |-> stack[TopLayer(stack, path)][path]]

Init ==
    /\ plan = [i \in Instances |-> <<>>]
    /\ data = [i \in Instances |-> Nothing]

Plan(i) ==
    /\ plan[i] = <<>>
    /\ plan'[i] \in Stacks
    /\ plan' = [plan EXCEPT ![i] = plan'[i]]
    /\ UNCHANGED data

Deploy(i) ==
    /\ plan[i] # <<>>
    /\ data[i] = Nothing
    /\ data' = [data EXCEPT ![i] = Overlay(plan[i])]
    /\ UNCHANGED plan

Remove(i) ==
    /\ data' = [data EXCEPT ![i] = Nothing]
    /\ UNCHANGED plan

Next == \E i \in Instances : Plan(i) \/ Deploy(i) \/ Remove(i)

Spec == Init /\ [][Next]_<<plan, data>>
=============================================================================
