---------------------- MODULE MCIntegrationSecrets ----------------------
\* A small instance of IntegrationSecrets for TLC.
EXTENDS IntegrationSecrets, TLC

CONSTANTS r1, r2, r3

MCSymmetry == Permutations({r1, r2, r3})

MCUrl == [protocol |-> "https", userinfo |-> FALSE, fragment |-> FALSE,
          port |-> "standard", host |-> "name"]

\* A name with a public address, one that also has a private address, and a plain URL.
MCOfferedUrls == {<<MCUrl, <<"public">> >>,
                  <<MCUrl, <<"public", "private">> >>,
                  <<[MCUrl EXCEPT !.protocol = "http"], <<"public">> >>}
=============================================================================
