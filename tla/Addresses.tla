----------------------------- MODULE Addresses -----------------------------
(***************************************************************************)
(* The numbers of the virtual network: the address a node takes from the   *)
(* hash of its public key, the subnet its interface is given, the MAC      *)
(* address of the ARP proxy and the length prefix of the data protocol.    *)
(* An address is the sequence of its four octets.                          *)
(***************************************************************************)
EXTENDS Naturals, Sequences

Byte == 0..255

Ip == Byte \X Byte \X Byte \X Byte

\* The first two bytes of the hash of a key, big-endian.
Suffix == {n \in Nat : n < 65536}

\* Mutant: the low byte of the suffix is used twice.
VirtualIpLow(suffix) == <<10, 144, suffix % 256, suffix % 256>>

\* virtual_ip_from_public_key, from the suffix on.
VirtualIp(suffix) == <<10, 144, suffix \div 256, suffix % 256>>

\* VIRTUAL_NETWORK_PREFIX.
Prefix == 16

\* Octet i of the netmask u32::MAX << (32 - prefix), and 0 for a shift of 32.
MaskOctet(prefix, i) ==
  LET ones == prefix - 8 * (i - 1)
  IN  IF prefix <= 8 * (i - 1) THEN 0
      ELSE IF ones >= 8 THEN 255
      ELSE 256 - 2^(8 - ones)

\* Addresses that agree in octet i are that far apart at most.
Width(prefix, i) == 256 - MaskOctet(prefix, i)

SameSubnet(a, b, prefix) ==
  \A i \in 1..4 : a[i] \div Width(prefix, i) = b[i] \div Width(prefix, i)

\* Octet i of the broadcast address of the subnet of a.
TopOctet(a, prefix, i) ==
  (a[i] \div Width(prefix, i)) * Width(prefix, i) + Width(prefix, i) - 1

\* The broadcast address of the subnet of a, which every host of it takes.
BroadcastIp(a, prefix) ==
  <<TopOctet(a, prefix, 1), TopOctet(a, prefix, 2),
    TopOctet(a, prefix, 3), TopOctet(a, prefix, 4)>>

\* ArpProxy::is_virtual_ip.
is_virtual_ip(a) == a[1] = 10 /\ a[2] = 144

\* ArpProxy::register_ip: the MAC address it answers for a.
MacOf(a) == <<2, 0, 0, a[3], a[4], a[2]>>

\* A length as the four bytes of a big-endian u32, and back.
ToBeBytes(n) ==
  <<(n \div 16777216) % 256, (n \div 65536) % 256, (n \div 256) % 256, n % 256>>

FromBeBytes(b) == b[1] * 16777216 + b[2] * 65536 + b[3] * 256 + b[4]

=============================================================================
