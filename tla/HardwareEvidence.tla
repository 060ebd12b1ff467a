-------------------------- MODULE HardwareEvidence --------------------------
(***************************************************************************)
(* The kinds of hardware evidence side by side: SEV-SNP reports, TDX       *)
(* quotes and GPU tokens, on machines, with collateral and with keys that  *)
(* change under the client.                                                *)
(***************************************************************************)
EXTENDS SnpReports, TdxQuotes, GpuTokens

\* An accepted report or quote keeps meaning a patched platform: firmware that was
\* checked is not rolled back under it, and a verdict ends with the collateral that
\* could not yet tell of a flaw.
PatchedStaysPatched == AcceptedStaysPatched /\ FlawEndsVerdicts

\* Evidence speaks for the session that asked: a quote names one nonce and one key,
\* and a GPU verdict rests on a token for this nonce that NRAS signed for good
\* evidence.
EvidenceNamesSession == QuoteNamesSession /\ GpuVerdictRight
=============================================================================
