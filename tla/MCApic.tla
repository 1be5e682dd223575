------------------------------- MODULE MCApic -------------------------------
(* Small instances of Apic for TLC: pin 1 edge, pin 2 level triggered. *)
EXTENDS Apic, TLC

\* Entries: vector, masked or not, and how it is sent.
MCWord(v, m, l, mode) == [vector |-> v, masked |-> m, level |-> l, mode |-> mode,
                          logical |-> mode = "lowpri"]

\* What the guest writes to the high part: the id of one processor, and the
\* logical id of both.
MCBoth == [physical |-> {}, logical |-> Cpus]
MCOne(c) == [physical |-> {c}, logical |-> {}]

MCWords == 1 :> {MCWord(34, FALSE, FALSE, "fixed"), MCWord(34, FALSE, FALSE, "extint")}
        @@ 2 :> {MCWord(33, m, TRUE, mode) : m \in BOOLEAN, mode \in {"fixed", "lowpri"}}
MCDests == 1 :> {} @@ 2 :> {MCOne(1), MCBoth}
MCIpis == {[vector |-> 50, level |-> FALSE, lowpri |-> TRUE, dest |-> Cpus]}

\* Two level triggered pins with one vector, as the guest may share it.
MCWordsShared == [p \in {1, 2} |-> {MCWord(33, FALSE, TRUE, "fixed")}]
MCDestsShared == [p \in {1, 2} |-> {}]
=============================================================================
