-------------------------- MODULE MCCommandService --------------------------
(* Instances of CommandService for TLC: one command with a limit, one without. *)
EXTENDS CommandService, TLC

CONSTANTS limited, unlimited

MCCommand == {limited, unlimited}
MCCommandLimit == (limited :> 1) @@ (unlimited :> 0)

\* One request of each fate.
MCRequests ==
    {r \in Request :
        /\ r.id # limited => r.valid /\ r.builds
        /\ ~r.valid => r.builds}

\* A program that cannot be started, a success, a failure and a deadline of
\* which the output is cut.
MCOutcomes ==
    {StartFailed}
    \cup {o \in Outcome : o.exit # -1 /\ (o.truncated <=> o.exit = 1)}
    \cup {o \in Outcome : o.timedOut /\ o.truncated}
=============================================================================
