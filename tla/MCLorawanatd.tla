---------------------------- MODULE MCLorawanatd -----------------------------
EXTENDS Lorawanatd, TLC

CONSTANTS r1, r2

\* Requests of every kind of the API: data, reads, parameters, a join, a reset,
\* the withheld parameters, and one with a content that is no JSON
ReqAll == { <<"CMD_SEND_TEXT">>, <<"CMD_GET_DEUI", "CMD_STATUS">>,
            <<"CMD_SET_DR", "CMD_SET_RX2DR">>, <<"CMD_SET_NJM", "CMD_GET_NJM">>,
            <<"CMD_JOIN">>, <<"CMD_FORCE_UPDATE">>, <<"CMD_HARD_RESET">>, << >> }
ReqHard == { <<"CMD_RESET">>, <<"CMD_HARD_RESET">> }
ReqResetOnly == { <<"CMD_RESET">> }
ReqReset == { <<"CMD_RESET">>, <<"CMD_STATUS">> }
ReqSave == { <<"CMD_SEND_TEXT">>, <<"CMD_HARD_RESET">> }
ReqJoin == { <<"CMD_SET_DR">>, <<"CMD_JOIN">> }
Sym == Permutations(Remotes)
=============================================================================
