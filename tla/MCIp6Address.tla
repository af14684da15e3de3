---------------------------- MODULE MCIp6Address ----------------------------
(* Model-checking instance of Ip6Address: the full-width addresses are the *)
(* first and last address of each fixed prefix the classifiers test and   *)
(* the addresses just outside them, plus ::, ::1, all ones and a global    *)
(* unicast address; MACs with the universal/local bit clear and set.       *)
EXTENDS Ip6Address

F == \hffff

MCProbe ==
    { <<0, 0, 0, 0, 0, 0, 0, 0>>, <<0, 0, 0, 0, 0, 0, 0, 1>>,
      <<\h1fff, F, F, F, F, F, F, F>>, <<\h2000, 0, 0, 0, 0, 0, 0, 0>>,
      <<\h3fff, F, F, F, F, F, F, F>>, <<\h4000, 0, 0, 0, 0, 0, 0, 0>>,
      <<\hfbff, F, F, F, F, F, F, F>>, <<\hfc00, 0, 0, 0, 0, 0, 0, 0>>,
      <<\hfdff, F, F, F, F, F, F, F>>, <<\hfe00, 0, 0, 0, 0, 0, 0, 0>>,
      <<\hfe7f, F, F, F, F, F, F, F>>, <<\hfe80, 0, 0, 0, 0, 0, 0, 0>>,
      <<\hfebf, F, F, F, F, F, F, F>>, <<\hfec0, 0, 0, 0, 0, 0, 0, 0>>,
      <<\hfeff, F, F, F, F, F, F, F>>, <<\hff00, 0, 0, 0, 0, 0, 0, 0>>,
      <<\hff02, 0, 0, 0, 0, 1, \hfeff, F>>, <<\hff02, 0, 0, 0, 0, 1, \hff00, 0>>,
      <<\hff02, 0, 0, 0, 0, 1, F, F>>, <<\hff02, 0, 0, 0, 0, 2, 0, 0>>,
      <<F, F, F, F, F, F, F, F>>,
      <<\h2001, \h0db8, 0, 0, 0, 0, \h0a0b, \h0c0d>> }

\* 00:11:22:33:44:55, 02:00:00:00:00:07 and ff:ff:ff:ff:ff:ff
MCMac == { <<\h0011, \h2233, \h4455>>, <<\h0200, 0, 7>>, <<F, F, F>> }
=============================================================================
