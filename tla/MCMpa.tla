--------------------------------- MODULE MCMpa ---------------------------------
EXTENDS Mpa

End1(k, m, c, p, r) == [kernel |-> k, mrkr |-> m, crc |-> c, pd |-> p, rpd |-> r]

MCConf == {End1(FALSE, m, c, 1, 1) : m, c \in BOOLEAN}
            \cup {End1(k, FALSE, FALSE, 0, r) : k \in BOOLEAN, r \in {0, 1}}
            \cup {End1(TRUE, m, TRUE, 1, 1) : m \in BOOLEAN}
MCPayldLen == {0, 1, 4, 17}
MCOffset == {0, 1}
MCStale == {0, 2, 4}
MCSender == {"ini"}
MCRefuser == {[tagged |-> TRUE, len |-> 17]}
================================================================================
