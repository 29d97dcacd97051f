---------------------------- MODULE MCJobTimes ----------------------------
(* An instance of JobTimes for TLC: a week of three days of two hours of     *)
(* three minutes.                                                            *)
EXTENDS JobTimes

\* At most two values of each kind, and a pair of settings.
FewValues(n) == {S \in SUBSET (0 .. n - 1) : Cardinality(S) =< 2}
SingleTimes ==
    {{T} : T \in [min : FewValues(Mins), hour : FewValues(Hours), wday : FewValues(Days)]}
TwoTimes == {{[min |-> {1}, hour |-> {0}, wday |-> {2}],
              [min |-> {0, 2}, hour |-> {1}, wday |-> {}]}}
ManyTimes == SingleTimes \union TwoTimes

\* No notwhen, and one for an hour.
SomeNotwhens == {[min |-> {}, hour |-> {}, wday |-> {}],
                 [min |-> {}, hour |-> {1}, wday |-> {}]}
=============================================================================
