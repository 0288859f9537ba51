----------------------------- MODULE MCConsent -----------------------------
(* Consent with the [hydra] sections worth telling apart.                  *)
EXTENDS Consent

CONSTANTS c1, c2, g1

Entry(c, groups) == [client |-> c, groups |-> groups]
Section(policies) ==
    [policies |-> policies, parses |-> TRUE, defaultDeny |-> FALSE,
     sweep |-> TRUE, requireMFA |-> FALSE]

(* One restricted client; everything denied by default, without a sweep    *)
(* and with a second factor required; an entry without client_id after a   *)
(* valid one; a section that does not parse.                               *)
MCConfigs ==
    {Section(<<Entry(c1, {g1})>>),
     [Section(<<Entry(c1, {g1})>>) EXCEPT !.defaultDeny = TRUE,
                                          !.sweep = FALSE, !.requireMFA = TRUE],
     Section(<<Entry(c1, {g1}), Entry(NoClient, {g1})>>),
     [Section(<<>>) EXCEPT !.parses = FALSE]}
=============================================================================
