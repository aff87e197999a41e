---------------------------- MODULE CallbackUrl ----------------------------
(***************************************************************************)
(* Which callback URLs are accepted, when one is registered and again each *)
(* time a result is delivered.  A URL is a record of what the check looks  *)
(* at; an address is one of a kind.                                        *)
(***************************************************************************)
EXTENDS Sequences

Addresses == {"public", "private", "loopback"}

Urls == [protocol : {"https", "http", "other"},
         userinfo : BOOLEAN,
         fragment : BOOLEAN,
         port : {"standard", "other"},
         host : Addresses \cup {"localhost", "name"}]   \* an address, localhost or a name

\* isPublicCallbackAddress: the block list holds the private and loopback networks.
IsPublicCallbackAddress(address, allowLocalhost) ==
  address = "public" \/ (allowLocalhost /\ address = "loopback")

\* parseCallbackUrl does not throw.
ParseCallbackUrl(url, allowLocalhost) ==
  LET localException == allowLocalhost /\ url.host \in {"localhost", "loopback"} IN
  /\ ~url.userinfo
  /\ ~url.fragment
  /\ url.protocol = "https" \/ (localException /\ url.protocol = "http")
  /\ url.port = "standard" \/ localException
  /\ url.host = "localhost" => allowLocalhost
  /\ url.host \in Addresses => IsPublicCallbackAddress(url.host, allowLocalhost)

\* resolveCallbackUrl does not throw: every address of a name has to be public.
ResolveCallbackUrl(url, found, allowLocalhost) ==
  /\ ParseCallbackUrl(url, allowLocalhost)
  /\ url.host \in Addresses
       \/ (found # << >> /\ \A n \in DOMAIN found : IsPublicCallbackAddress(found[n], allowLocalhost))
=============================================================================
