\* Two threads; more counterparties than slots, so that the slots run out.
CONSTANTS
    Identifiers = {a, b, c}
    Chains = {x}
    MaxIndex = 1
    Unassigned = Unassigned
    Threads = {t1, t2}
    Nobody = Nobody
SPECIFICATION CallsSpec
INVARIANTS TypeOK SlotsAreDistinct NumbersAreIssuedOnce NumbersCountFromZero AnswersAreCurrent
PROPERTIES SlotsAreStable CallsAreAtomic CallsReturn
