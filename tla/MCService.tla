------------------------------ MODULE MCService ------------------------------
(***************************************************************************)
(* Two requests over one in-flight slot, two apps in one process, and the  *)
(* settings that tell startup's branches apart.                            *)
(***************************************************************************)
EXTENDS Service

CONSTANTS r1, r2

One(provider, model, key) == [provider |-> provider, model |-> model, key |-> key]
Fall(provider, model, key, url) ==
    [provider |-> provider, model |-> model, key |-> key, url |-> url]
Deploy(dir, primary, fallback, profiles) ==
    [tenant_config_dir |-> dir, primary |-> primary, fallback |-> fallback,
     profiles |-> profiles]

Groq == One("adapter", TRUE, TRUE)
None == Fall("none", FALSE, FALSE, FALSE)

\* The first two start; the second has a fallback but no primary.
MCDeployments ==
    {Deploy(TRUE, Groq, None, TRUE),
     Deploy(FALSE, One("none", FALSE, FALSE), Fall("adapter", TRUE, FALSE, FALSE), TRUE),
     Deploy(TRUE, Groq, Fall("none", FALSE, FALSE, TRUE), TRUE),
     Deploy(TRUE, Groq, Fall("adapter", TRUE, FALSE, FALSE), TRUE),
     Deploy(FALSE, One("no_adapter", TRUE, TRUE), None, TRUE),
     Deploy(TRUE, Groq, Fall("adapter", TRUE, TRUE, FALSE), FALSE)}
=============================================================================
