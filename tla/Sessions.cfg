\* Two proxied requests for the same page and a tunnel; the page shows the newest
\* two of their three traces.
SPECIFICATION Spec
CONSTANTS
    p1 = p1
    p2 = p2
    t1 = t1
    api = api
    web = web
    Params = {"token=1", "token=2", "page"}
    KeyOf <- MCKeyOf
    Proxies = {p1, p2}
    RawTunnels = {}
    SocketTunnels = {t1}
    UrlOf <- MCUrlOf
    Area = "JP"
    Statuses = {200}
    GroupingRules <- MCGroupingRules
    FoldingRules <- MCFoldingRules
    Limits = {2}
    MaxSent = 1
    MaxMinute = 1
INVARIANTS TunnelsAccounted LastWordDelivered ViewsAgree
PROPERTIES GroupsOnlyGrow TunnelsEnd
CHECK_DEADLOCK FALSE
