--------------------------- MODULE MCOutputSocket ---------------------------
EXTENDS OutputSocket

Setting(interface, vlan, ip) == [interface |-> interface, vlan |-> vlan, ip_address |-> ip]
Device(name, vlan, up, multicast) ==
    [name |-> name, vlan |-> vlan, up |-> up, multicast |-> multicast, loopback |-> name = "lo"]

Group == <<234, 1, 1, 1>>
Host == <<10, 0, 0, 9>>
\* A group that IsMulticast() takes for a host.
HighGroup == <<234, 1, 1, 240>>

McSettings ==
    {Setting("", 0, Group), Setting("eth", 0, Group), Setting("", 3, Group),
     Setting("eth", 3, Host), Setting("", 0, HighGroup), Setting("eth", 0, <<>>)}

Lo == Device("lo", 0, TRUE, FALSE)
McDeviceTables ==
    {<<Lo>>,
     <<Lo, Device("eth", 0, TRUE, TRUE), Device("eth", 3, TRUE, TRUE)>>,
     <<Device("eth", 0, FALSE, TRUE), Device("eth", 3, TRUE, TRUE), Device("wlan", 3, TRUE, TRUE)>>}
=============================================================================
