---------------------------- MODULE MCBootstrap -----------------------------
(***************************************************************************)
(* Two replicas.  The file of the first describes a user with a group and  *)
(* credentials, or two policies and a group.  The second has the same user *)
(* or the policies in another order (the two can wait in a circle), another *)
(* identity under the same username and access key, a group that nobody    *)
(* creates, or a file that start-up refuses or has nothing to apply from.  *)
(***************************************************************************)
EXTENDS Bootstrap

CONSTANTS u1, g1, p1, p2, s1, k1, x1, x2, r1, r2

File(ps, gs, us) == BootstrapFile(None, ps, gs, us)

ThePolicy(p) == PolicySpec(p, s1, None)

TheKey == CredentialSpec(k1, "secret", None)

PersonFile ==
    File(<<>>, <<GroupSpec(g1, None, <<>>)>>,
         <<UserSpec(u1, Blank, x1, <<g1>>, <<>>, <<TheKey>>)>>)

PolicyFile ==
    File(<<ThePolicy(p1), ThePolicy(p2)>>, <<GroupSpec(g1, None, <<p1>>)>>, <<>>)

ReorderedFile ==
    File(<<ThePolicy(p2), ThePolicy(p1)>>, <<>>,
         <<UserSpec(u1, Blank, x1, <<>>, <<p2>>, <<>>)>>)

OtherIdentityFile ==
    File(<<>>, <<>>, <<UserSpec(u1, Blank, x2, <<>>, <<>>, <<TheKey>>)>>)

MissingGroupFile ==
    File(<<>>, <<>>, <<UserSpec(u1, Blank, Blank, <<g1>>, <<>>, <<>>)>>)

TwoSecretsFile ==
    File(<<>>, <<>>,
         <<UserSpec(u1, Blank, x1, <<>>, <<>>,
                    <<CredentialSpec(k1, "secret", "VAR")>>)>>)

EmptyFile == File(<<>>, <<>>, <<>>)

MCDeployments ==
    {[r \in Replicas |-> IF r = r1 THEN f[1] ELSE f[2]] :
        f \in {<<PersonFile, PersonFile>>,
               <<PolicyFile, ReorderedFile>>,
               <<PersonFile, OtherIdentityFile>>,
               <<NoFile, MissingGroupFile>>,
               <<EmptyFile, TwoSecretsFile>>,
               <<NoFile, UnreadableFile>>}}

=============================================================================
