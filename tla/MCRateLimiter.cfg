\* Three handlers, two connections, two requests a window, and the routes
\* that read inside a transaction and before one.
CONSTANTS
    Handlers = {h1, h2, h3}
    Addresses = {ip}
    Limit = 2
    MaxTimers = 2
    Routes = {"transfer", "webhook"}
    MaxOpenConns = 2
SPECIFICATION ApiSpec
INVARIANTS
    BoundedOvershoot
    ConnectionsAreReturned
PROPERTIES
    RequestsEnd
