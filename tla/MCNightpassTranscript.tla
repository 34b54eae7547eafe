------------------------ MODULE MCNightpassTranscript ------------------------
EXTENDS NightpassTranscript, TLC

MCQuotas   == {0, 1}
MCSymmetry ==
  Permutations(Clients) \cup Permutations(Nonces) \cup Permutations(Tools)
=============================================================================
