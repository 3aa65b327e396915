----------------------------- MODULE MCAllowance -----------------------------
(* Instance of ApprovalHistory for TLC.  One owner and one spender are      *)
(* enough: allowances are kept per pair.                                   *)
EXTENDS MCVault, ApprovalHistory

OnePair == {<<lp1, lp2>>}
=============================================================================
