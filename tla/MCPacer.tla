------------------------------- MODULE MCPacer -------------------------------
(* Small instances of Pacer for TLC; a second is 12 ticks. *)
EXTENDS Pacer

None == [kind |-> "const", start |-> 0, step |-> 0, stepDuration |-> 12,
         stop |-> 0, duration |-> 0, max |-> 0, segments |-> <<>>]

Const == {[None EXCEPT !.start = f, !.max = m] : f \in {0, 1, 3, 6}, m \in {0, 5}}

\* The pacers of the configurations NewConfig accepts, with steps of one second
\* or more; a start rate of zero is accepted there and refused by the pacer.
Config == INSTANCE RunConfig

LoadSettings(load, m, x) ==
    [n |-> m, c |-> 1, rps |-> 0, nConns |-> 0, x |-> x, z |-> 0, skipFirst |-> 0,
     binary |-> FALSE, dynamic |-> FALSE, load |-> load,
     conc |-> [load EXCEPT !.schedule = ""]]

Loads == [schedule: {"step", "line"}, start: {0, 1, 2, 6}, step: {-2, -1, 1, 2},
          stepDuration: {0, 12, 24}, end: {0, 3}, duration: {0, 24}]

Step == {Config!PacerOf(Config!NewConfig(s)) :
            s \in {t \in {LoadSettings(l, m, x) : l \in Loads, m \in {0, 9}, x \in {0, 60}} :
                      Config!Accepts(t)}}

Segment(d, r) == [duration |-> d, rps |-> r]
Segmented == {[None EXCEPT !.kind = "segments", !.segments = s, !.max = m] :
                 s \in {<<>>, <<Segment(12, 2), Segment(24, 3)>>,
                        <<Segment(12, 6), Segment(12, 0), Segment(12, 2)>>},
                 m \in {0, 5}}

MCConfigs == Const \cup Segmented \cup {c \in Step : Regular(c)}

=============================================================================
